---- MODULE Spec2Model ----
(***************************************************************************)
(* A model of the WordleBuddy repository: the candidate filter             *)
(* (WordBankManager.cull / GuessHelper.cull_possible_word_bank), the       *)
(* feedback oracle of the GUI, and the guess selection of WordleGuesser    *)
(* and of GuessHelper.                                                     *)
(*                                                                         *)
(* Words are sequences of character ordinals (Python's ord).  Positions    *)
(* are 1-based here and 0-based in the Python source.                      *)
(***************************************************************************)
EXTENDS Integers, Sequences, FiniteSets, TLC

VARIABLES
    app,                 \* which program of the repository runs: "wordle_buddy" or "guessing"
    language,            \* the language the program was started with
    full_word_bank,      \* WordBankManager.full_word_bank (encoded rows)
    ascii_converter_key, \* WordBankManager.ascii_converter_key
    possible_word_bank,  \* WordBankManager.possible_word_bank (encoded rows)
    attempts,            \* WordleGuesser.attempts
    hardcore_mode,       \* WordScorerEntropy.hardcore_mode
    max_guesses,         \* Hyperparameters.max_guesses of the session
    gh_full_word_bank,   \* GuessHelper.full_word_bank (list of strings)
    gh_possible_word_bank, \* GuessHelper.possible_word_bank (list of strings)
    gh_hardcore_mode,    \* GuessHelper.hardcore_mode
    gui,                 \* GUIApp: secret_word (<<>> until set_word), current_row, attempt_num
    other,               \* a second WordleGuesser of the same process (NoSession when there is none)
    solver,              \* wordle_solver's WordScorerEntropy: the array its current_word_bank refers to
    terminal,            \* WordleTerminalHelper: self.data and the position of play()
    scored,              \* history: the last score_word_bank call, what it read and returned
    op,                  \* the operation that ran last, with its arguments
    err,                 \* the exception the last operation raised, or "none"
    ret,                 \* what the last best_guess / find_optimal_guesses returned
    failed,              \* history: a cull has raised since the last reset
    before,              \* history: the possible word bank before the last operation
    calls                \* history: the completed cull_possible_word_bank calls

vars == <<app, language, full_word_bank, ascii_converter_key, possible_word_bank,
          attempts, hardcore_mode, max_guesses, gh_full_word_bank,
          gh_possible_word_bank, gh_hardcore_mode, gui, other, solver, terminal, scored,
          op, err,
          ret, failed, before, calls>>

buddy_vars == <<full_word_bank, ascii_converter_key, possible_word_bank,
                attempts, hardcore_mode, max_guesses, failed>>

guessing_vars == <<gh_full_word_bank, gh_possible_word_bank, gh_hardcore_mode, calls>>

----------------------------------------------------------------------------
(* Bounds of the model. *)

\* process_guess / cull calls explored per game (until the next reset)
MaxCalls == 2

----------------------------------------------------------------------------
(* Characters and words. *)

Ord == [a |-> 97, b |-> 98, d |-> 100, e |-> 101, g |-> 103, i |-> 105,
        l |-> 108, n |-> 110, o |-> 111, p |-> 112, s |-> 115, u |-> 117,
        x |-> 120, y |-> 121]

W(c1, c2, c3, c4, c5) == <<Ord[c1], Ord[c2], Ord[c3], Ord[c4], Ord[c5]>>

abide == W("a", "b", "i", "d", "e")
glass == W("g", "l", "a", "s", "s")
index == W("i", "n", "d", "e", "x")
sassy == W("s", "a", "s", "s", "y")
speed == W("s", "p", "e", "e", "d")
leben == W("l", "e", "b", "e", "n")
nebel == W("n", "e", "b", "e", "l")
eisen == W("e", "i", "s", "e", "n")

Languages == {"english", "german"}

\* The content of <language>_word_bank.npy: an ordered list of unique
\* lowercase words of one length.
WordBankFile(lang) ==
    IF lang = "english" THEN <<abide, glass, index, sassy, speed>>
                        ELSE <<eisen, leben, nebel>>

Range(s) == {s[k] : k \in 1..Len(s)}

RECURSIVE SeqMin(_)
SeqMin(s) ==
    IF Len(s) = 1 THEN s[1]
    ELSE LET m == SeqMin(Tail(s)) IN IF s[1] < m THEN s[1] ELSE m

\* number of positions of w that hold letter c
Count(w, c) == Cardinality({k \in 1..Len(w) : w[k] = c})

----------------------------------------------------------------------------
(* WordBankManager: loading, encoding. *)

\* min() over every character of the loaded bank
MinValue(bank) == SeqMin([k \in 1..Len(bank) |-> SeqMin(bank[k])])

\* _load_word_bank: characters to ordinals, normalised by the minimum
LoadWordBank(lang) ==
    LET word_bank == WordBankFile(lang)
        min_value == MinValue(word_bank)
    IN  [normalized_word_bank |->
             [k \in 1..Len(word_bank) |->
                 [p \in 1..Len(word_bank[k]) |-> word_bank[k][p] - min_value]],
         min_value |-> min_value]

encode_word(word, key) == [p \in 1..Len(word) |-> word[p] - key]

decode_word(word, key) == [p \in 1..Len(word) |-> word[p] + key]

----------------------------------------------------------------------------
(* WordBankManager: the filters.  Each takes the possible word bank and    *)
(* returns the one the method leaves in self.possible_word_bank; boolean   *)
(* mask indexing keeps the rows whose mask entry is true, in order.        *)

\* ascending sequence of the members of a finite set of integers
RECURSIVE Ascending(_)
Ascending(S) ==
    IF S = {} THEN <<>>
    ELSE LET m == CHOOSE x \in S : \A y \in S : x <= y
         IN  <<m>> \o Ascending(S \ {m})

_find_duplicates(word) ==
    LET chars == {word[p] : p \in {q \in 1..Len(word) : word[q] >= 0}}
    IN  [char \in chars |-> Count(word, char)]

\* seeded fault: the gray mask indexes the full word bank
_remove_gray_of_full_bank(bank, incorrect) ==
    LET mask(w) == ~(\E p \in 1..Len(w) : w[p] = incorrect)
    IN  SelectSeq(full_word_bank, mask)

_remove_gray(bank, incorrect) ==
    LET mask(w) == ~(\E p \in 1..Len(w) : w[p] = incorrect)
    IN  SelectSeq(bank, mask)

\* seeded fault: the letter is assigned to the column instead of compared
_remove_green_assigns(bank, idx, letter) ==
    [k \in 1..Len(bank) |-> [bank[k] EXCEPT ![idx] = letter]]

_remove_green(bank, idx, letter) ==
    LET mask(w) == w[idx] = letter
    IN  SelectSeq(bank, mask)

\* seeded fault: wrong_position compares with == instead of !=
_remove_yellow_same_position(bank, idx, letter, confirmed_indices) ==
    LET contains_letter(w) == \E p \in (1..Len(w)) \ confirmed_indices : w[p] = letter
        wrong_position(w) == w[idx] = letter
        mask(w) == contains_letter(w) /\ wrong_position(w)
    IN  SelectSeq(bank, mask)

_remove_yellow(bank, idx, letter, confirmed_indices) ==
    LET contains_letter(w) == \E p \in (1..Len(w)) \ confirmed_indices : w[p] = letter
        wrong_position(w) == w[idx] # letter
        mask(w) == contains_letter(w) /\ wrong_position(w)
    IN  SelectSeq(bank, mask)

\* seeded fault: the mask forgets max_count
_filter_by_letter_count_min_only(bank, letter, min_count, max_count) ==
    LET counts(w) == Count(w, letter)
        mask(w) == min_count <= counts(w)
    IN  SelectSeq(bank, mask)

_filter_by_letter_count(bank, letter, min_count, max_count) ==
    LET counts(w) == Count(w, letter)
        mask(w) == (min_count <= counts(w)) /\ (counts(w) <= max_count)
    IN  SelectSeq(bank, mask)

_regular_removal(bank, letter, position, feedback) ==
    IF feedback = "gray" THEN _remove_gray(bank, letter)
    ELSE IF feedback = "green" THEN _remove_green(bank, position, letter)
    ELSE IF feedback = "yellow" THEN _remove_yellow(bank, position, letter, {})
    ELSE bank

RECURSIVE RemoveGreens(_, _, _)
RemoveGreens(bank, green_indices, letter) ==
    IF green_indices = <<>> THEN bank
    ELSE RemoveGreens(_remove_green(bank, Head(green_indices), letter),
                      Tail(green_indices), letter)

RECURSIVE RemoveYellows(_, _, _, _)
RemoveYellows(bank, yellow_indices, letter, green_indices) ==
    IF yellow_indices = <<>> THEN bank
    ELSE RemoveYellows(_remove_yellow(bank, Head(yellow_indices), letter, Range(green_indices)),
                       Tail(yellow_indices), letter, green_indices)

\* the body of cull's loop for one letter of the guess with count > 1;
\* feedback is [information[i] for i in indices]
CullRepeated(bank, guess, letter, indices, information) ==
    LET feedback == [k \in 1..Len(indices) |-> information[indices[k]]]
        n_gray == Cardinality({k \in 1..Len(feedback) : feedback[k] = "gray"})
        max_count == IF n_gray > 0 THEN Len(feedback) - n_gray ELSE Len(guess)
        min_count == Cardinality({k \in 1..Len(feedback) : feedback[k] = "yellow"})
                     + Cardinality({k \in 1..Len(feedback) : feedback[k] = "green"})
        counted == _filter_by_letter_count(bank, letter, min_count, max_count)
        green_indices == SelectSeq(indices, LAMBDA p : information[p] = "green")
        yellow_indices == SelectSeq(indices, LAMBDA p : information[p] = "yellow")
    IN  RemoveYellows(RemoveGreens(counted, green_indices, letter),
                      yellow_indices, letter, green_indices)

\* cull's loop over occurrences.items(), letters in ascending order.  The
\* result is the bank the call leaves behind and the exception it raised.
RECURSIVE CullLoop(_, _, _, _)
CullLoop(letters, bank, guess, information) ==
    IF letters = <<>> THEN [bank |-> bank, err |-> "none"]
    ELSE LET letter == Head(letters)
             count == _find_duplicates(guess)[letter]
             indices == Ascending({p \in 1..Len(guess) : guess[p] = letter})
         IN  IF \E p \in Range(indices) : p > Len(information)
                 THEN [bank |-> bank, err |-> "IndexError"]
             ELSE IF Len(bank) = 0
                 THEN [bank |-> bank, err |-> "none"]
             ELSE IF count = 1
                 THEN CullLoop(Tail(letters),
                               _regular_removal(bank, letter, indices[1], information[indices[1]]),
                               guess, information)
             ELSE CullLoop(Tail(letters),
                           CullRepeated(bank, guess, letter, indices, information),
                           guess, information)

\* seeded fault: cull returns at once when at most two words are left
cull_stops_at_two(bank, guess, information) ==
    IF Len(bank) <= 2 THEN [bank |-> bank, err |-> "none"]
    ELSE CullLoop(Ascending(DOMAIN _find_duplicates(guess)), bank, guess, information)

\* seeded fault: the last mask is applied to all rows but the last one
cull_trims_last_row(bank, guess, information) ==
    LET r == CullLoop(Ascending(DOMAIN _find_duplicates(guess)), bank, guess, information)
    IN  [bank |-> SubSeq(r.bank, 1, Len(r.bank) - 1), err |-> r.err]

\* WordBankManager.cull(guess, information) on an encoded guess
cull(bank, guess, information) ==
    CullLoop(Ascending(DOMAIN _find_duplicates(guess)), bank, guess, information)

----------------------------------------------------------------------------
(* The feedback oracle of the GUI (GUIApp.submit_guess) and the conversion *)
(* of its one-letter codes to colour names (format_feedback).              *)

\* second pass: positions from p on, remaining = remaining_letters so far
RECURSIVE SecondPass(_, _, _, _, _)
SecondPass(secret_word, guess, p, remaining, result) ==
    IF p > Len(guess) THEN result
    ELSE LET letter == guess[p]
         IN  IF letter # secret_word[p]
             THEN IF letter \in DOMAIN remaining /\ remaining[letter] > 0
                  THEN SecondPass(secret_word, guess, p + 1,
                                  [remaining EXCEPT ![letter] = @ - 1],
                                  [result EXCEPT ![p] = "y"])
                  ELSE SecondPass(secret_word, guess, p + 1, remaining,
                                  [result EXCEPT ![p] = "w"])
             ELSE SecondPass(secret_word, guess, p + 1, remaining, result)

\* seeded fault: the first pass does not take the greens out of remaining_letters
OracleKeepsGreens(secret_word, guess) ==
    LET remaining_letters == [c \in Range(secret_word) |-> Count(secret_word, c)]
        greens == {p \in 1..Len(guess) : guess[p] = secret_word[p]}
        first_result == [p \in 1..Len(guess) |-> IF p \in greens THEN "g" ELSE "w"]
    IN  SecondPass(secret_word, guess, 1, remaining_letters, first_result)

\* the result list submit_guess joins into gyw_string
Oracle(secret_word, guess) ==
    LET remaining_letters == [c \in Range(secret_word) |-> Count(secret_word, c)]
        greens == {p \in 1..Len(guess) : guess[p] = secret_word[p]}
        first_result == [p \in 1..Len(guess) |-> IF p \in greens THEN "g" ELSE "w"]
        first_remaining ==
            [c \in Range(secret_word) |->
                remaining_letters[c] - Cardinality({p \in greens : guess[p] = c})]
    IN  SecondPass(secret_word, guess, 1, first_remaining, first_result)

format_feedback(feedback) ==
    LET format_dict == [g |-> "green", y |-> "yellow", w |-> "gray"]
    IN  [k \in 1..Len(feedback) |-> format_dict[feedback[k]]]

----------------------------------------------------------------------------
(* GuessHelper.cull_possible_word_bank (guessing.py), on lists of strings. *)

\* letter_counts: the 'g' and 'y' labelled occurrences of char
LetterCounts(guessed_word, guessed_word_info, char) ==
    Cardinality({p \in 1..Len(guessed_word) :
                    /\ p <= Len(guessed_word_info)
                    /\ guessed_word[p] = char
                    /\ guessed_word_info[p] \in {"g", "y"}})

GhCullPosition(bank, guessed_word, guessed_word_info, position) ==
    LET char == guessed_word[position]
        char_info == guessed_word_info[position]
        green(w) == w[position] = char
        yellow(w) == char \in Range(w) /\ w[position] # char
        white_only(w) == char \notin Range(w)
        white_more(w) ==
            /\ Count(w, char) <= LetterCounts(guessed_word, guessed_word_info, char)
            /\ w[position] # char
    IN  IF char_info = "g" THEN SelectSeq(bank, green)
        ELSE IF char_info = "y" THEN SelectSeq(bank, yellow)
        ELSE IF char_info = "w"
            THEN IF LetterCounts(guessed_word, guessed_word_info, char) = 0
                 THEN SelectSeq(bank, white_only)
                 ELSE SelectSeq(bank, white_more)
        ELSE bank

RECURSIVE GhCullLoop(_, _, _, _)
GhCullLoop(bank, guessed_word, guessed_word_info, position) ==
    IF position > Len(guessed_word) \/ position > Len(guessed_word_info) THEN bank
    ELSE GhCullLoop(GhCullPosition(bank, guessed_word, guessed_word_info, position),
                    guessed_word, guessed_word_info, position + 1)

\* the validation at the head of cull_possible_word_bank
GhValidate(full, guessed_word, guessed_word_info) ==
    IF guessed_word \notin Range(full) THEN "ValueError: not in the word bank"
    ELSE IF ~(Range(guessed_word_info) \subseteq {"g", "y", "w"})
        THEN "ValueError: invalid characters"
    ELSE IF Len(guessed_word_info) # 5 THEN "ValueError: must be 5 characters long"
    ELSE "none"

cull_possible_word_bank(full, bank, guessed_word, guessed_word_info) ==
    LET e == GhValidate(full, guessed_word, guessed_word_info)
    IN  IF e # "none" THEN [bank |-> bank, err |-> e]
        ELSE [bank |-> GhCullLoop(bank, guessed_word, guessed_word_info, 1), err |-> "none"]

----------------------------------------------------------------------------
(* WordScorerEntropy (wordle_buddy).                                       *)
(*                                                                         *)
(* Scores are floats in the source.  Here an entropy is a pair: hi is the  *)
(* binary entropy of an unclipped probability in 1/10000 bit, lo counts    *)
(* the entropy of a clipped probability (H(1e-10), about 3.5e-9 bit, more  *)
(* than zero and less than any unit of hi).  The penalty factors           *)
(* (1 + 1/k)/2 and 1/k, k in 1..5, are kept exact by counting a word's     *)
(* score in units of 1/120.  With no viable word every probability is 0/0: *)
(* nan marks the NaN that numpy carries through the clip, the logarithms,  *)
(* the products and the sums.                                              *)

RECURSIVE SumSeq(_)
SumSeq(s) == IF s = <<>> THEN 0 ELSE Head(s) + SumSeq(Tail(s))

\* current_word_bank property
current_word_bank(mode, full, possible) ==
    IF mode = TRUE THEN possible ELSE full

\* seeded fault: the table counts the words of the bank that was viable
\* before the last operation
char_freq_table_stale(possible, char, pos) ==
    Cardinality({k \in 1..Len(before) : before[k][pos] = char})

\* seeded fault: the table counts the words of the current word bank
char_freq_table_of_universe(possible, char, pos) ==
    Cardinality({k \in 1..Len(current_word_bank(hardcore_mode, full_word_bank, possible_word_bank)) :
                     current_word_bank(hardcore_mode, full_word_bank, possible_word_bank)[k][pos] = char})

\* _precompute_letter_frequencies: entry (char, pos) of char_freq_table
char_freq_table(possible, char, pos) ==
    Cardinality({k \in 1..Len(possible) : possible[k][pos] = char})

\* np.sum(char_freq_table, axis=1)
total_char_freq_table(possible, char) ==
    SumSeq([pos \in 1..5 |-> char_freq_table(possible, char, pos)])

\* -p log2(p) - (1-p) log2(1-p) for p = num/total strictly between 0 and 1
BinaryEntropy(num, total) ==
    CASE 2 * num = total -> 10000
      [] 3 * num = total \/ 3 * num = 2 * total -> 9183
      [] 4 * num = total \/ 4 * num = 3 * total -> 8113
      [] 5 * num = total \/ 5 * num = 4 * total -> 7219
      [] 5 * num = 2 * total \/ 5 * num = 3 * total -> 9710
      [] 6 * num = total \/ 6 * num = 5 * total -> 6500

\* the entropy of np.clip(num / total, epsilon, 1 - epsilon)
ClippedEntropy(num, total) ==
    IF total = 0 THEN [hi |-> 0, lo |-> 0, nan |-> TRUE]
    ELSE IF num <= 0 \/ num >= total THEN [hi |-> 0, lo |-> 1, nan |-> FALSE]
    ELSE [hi |-> BinaryEntropy(num, total), lo |-> 0, nan |-> FALSE]

green_entropy(possible, char, pos) ==
    ClippedEntropy(char_freq_table(possible, char, pos), Len(possible))

yellow_entropy(possible, char, pos) ==
    ClippedEntropy(total_char_freq_table(possible, char)
                       - char_freq_table(possible, char, pos), Len(possible))

white_entropy(possible, char) ==
    ClippedEntropy(Len(possible) - total_char_freq_table(possible, char), Len(possible))

Scale(weight, e) == [hi |-> weight * e.hi, lo |-> weight * e.lo, nan |-> e.nan]

Plus(e1, e2) == [hi |-> e1.hi + e2.hi, lo |-> e1.lo + e2.lo, nan |-> e1.nan \/ e2.nan]

Zero == [hi |-> 0, lo |-> 0, nan |-> FALSE]

Positive(e) == ~e.nan /\ (e.hi > 0 \/ (e.hi = 0 /\ e.lo > 0))

LessEq(e1, e2) == e1.hi < e2.hi \/ (e1.hi = e2.hi /\ e1.lo <= e2.lo)

\* seeded fault: the test on the number of viable words is missing
EndgameOnLastGuessOnly(possible, attempt_num, hparams_max_guesses) ==
    attempt_num = hparams_max_guesses

\* whether the endgame weighting of _apply_hyperparameters applies
Endgame(possible, attempt_num, hparams_max_guesses) ==
    Len(possible) <= 2 \/ attempt_num = hparams_max_guesses

\* _apply_hyperparameters: the entry of word_entropies for one position.
\* The endgame mask multiplies by 0: that is zero, or NaN when the entropy
\* is NaN, which it is exactly when no word is viable.
word_entropies(working_word, pos, possible, attempt_num, hparams_max_guesses) ==
    LET char == working_word[pos]
        char_frequencies == Count(working_word, char)
        yellow_penalty == 60 + (60 \div char_frequencies)
        white_penalty == 120 \div char_frequencies
        entropy ==
            Plus(Scale(120, green_entropy(possible, char, pos)),
                 Plus(Scale(yellow_penalty, yellow_entropy(possible, char, pos)),
                      Scale(white_penalty, white_entropy(possible, char))))
        is_potential_answer == working_word \in Range(possible)
    IN  IF Endgame(possible, attempt_num, hparams_max_guesses) /\ ~is_potential_answer
        THEN IF Len(possible) = 0 THEN Scale(0, entropy) ELSE Zero
        ELSE entropy

RECURSIVE SumEntropies(_)
SumEntropies(s) == IF s = <<>> THEN Zero ELSE Plus(Head(s), SumEntropies(Tail(s)))

\* seeded fault: the endgame mask is multiplied into the rows of the working
\* word bank, which is the bank itself and no copy of it
working_word_bank_masked(working_word_bank, possible, attempt_num, hparams_max_guesses) ==
    [k \in 1..Len(working_word_bank) |->
        IF Endgame(possible, attempt_num, hparams_max_guesses) /\ working_word_bank[k] \notin Range(possible)
        THEN [pos \in 1..Len(working_word_bank[k]) |-> 0]
        ELSE working_word_bank[k]]

\* self.working_word_bank is the current word bank itself (line 180), not a
\* copy: these are its rows when score_word_bank returns.  The call indexes
\* it and takes views of it and writes to neither.
working_word_bank_after(working_word_bank, possible, attempt_num, hparams_max_guesses) ==
    working_word_bank

\* score_word_bank: one score per row of the working word bank
score_word_bank(working_word_bank, possible, attempt_num, hparams_max_guesses) ==
    [k \in 1..Len(working_word_bank) |->
        SumEntropies([pos \in 1..Len(working_word_bank[k]) |->
            word_entropies(working_word_bank[k], pos, possible,
                           attempt_num, hparams_max_guesses)])]

----------------------------------------------------------------------------
(* WordleGuesser.best_guess.                                               *)

Min(x, y) == IF x <= y THEN x ELSE y

\* np.argsort(scores)[::-1]: the index sequences in descending score order.
\* The sort is not stable, so equal scores may come in any order.
RECURSIVE ArgsortDescending(_, _)
ArgsortDescending(S, scores) ==
    IF S = {} THEN {<<>>}
    ELSE UNION {{<<k>> \o t : t \in ArgsortDescending(S \ {k}, scores)} :
                   k \in {j \in S : \A m \in S : LessEq(scores[m], scores[j])}}

\* seeded fault: an empty list instead of ['No Viable Guesses']
NoGuesses == [sentinel |-> FALSE, words |-> <<>>]

NoViableGuesses == [sentinel |-> TRUE, words |-> <<>>]

\* seeded fault: the [::-1] is missing, the indices come in ascending order
BestGuessesAscending(working_word_bank, scores, key, num_best_guesses, order) ==
    LET num_available == Len(working_word_bank)
        num == Min(num_best_guesses, num_available)
        best_indices == SubSeq([k \in 1..Len(order) |-> order[Len(order) + 1 - k]], 1, num)
        best_guesses_ascii == SelectSeq(best_indices, LAMBDA k : Positive(scores[k]))
        best_guesses_chars ==
            [k \in 1..Len(best_guesses_ascii) |->
                decode_word(working_word_bank[best_guesses_ascii[k]], key)]
    IN  IF best_guesses_chars = <<>> THEN NoViableGuesses
        ELSE [sentinel |-> FALSE, words |-> best_guesses_chars]

\* best_guess from the scores on, for one outcome `order` of the argsort
BestGuesses(working_word_bank, scores, key, num_best_guesses, order) ==
    LET num_available == Len(working_word_bank)
        num == Min(num_best_guesses, num_available)
        best_indices == SubSeq(order, 1, num)
        best_guesses_ascii == SelectSeq(best_indices, LAMBDA k : Positive(scores[k]))
        best_guesses_chars ==
            [k \in 1..Len(best_guesses_ascii) |->
                decode_word(working_word_bank[best_guesses_ascii[k]], key)]
    IN  IF best_guesses_chars = <<>> THEN NoViableGuesses
        ELSE [sentinel |-> FALSE, words |-> best_guesses_chars]

\* best_guess: every list it may return (one per outcome of the argsort)
best_guess(full, possible, key, mode, n_attempts, hparams_max_guesses, num_best_guesses) ==
    IF Len(possible) = 0 THEN {NoViableGuesses}
    ELSE LET working_word_bank == current_word_bank(mode, full, possible)
             scores == score_word_bank(working_word_bank, possible,
                                       n_attempts + 1, hparams_max_guesses)
         IN  {BestGuesses(working_word_bank, scores, key, num_best_guesses, order) :
                  order \in ArgsortDescending(1..Len(working_word_bank), scores)}

----------------------------------------------------------------------------
(* GuessHelper.find_optimal_guesses and EntropyScoreCalculator             *)
(* (guessing.py).  An entropy is in 1/10000 bit, a positional weight in     *)
(* tenths, the diminishing factor 1/k in sixtieths and the answer weight   *)
(* in sixths, so a score counts units of 1/36000000.                       *)

\* vowels = "aeiou"
Vowels == {Ord[c] : c \in {"a", "e", "i", "o", "u"}}

\* Hyperparameters of guessing.py (defaults), the weights in tenths
vowel_pos_weights == <<12, 12, 12, 12, 12>>

consonant_pos_weights == <<15, 10, 12, 11, 15>>

gh_max_guesses == 6

\* count_letter_frequencies: letter_frequencies[pos].get(char, 0); the dict
\* has a key for a position only when some possible word has that position
letter_frequencies(possible, pos, char) ==
    Cardinality({k \in 1..Len(possible) : possible[k][pos] = char})

\* the entropy of frequency / total_words_list, 0 when it is 0 or 1
FrequencyEntropy(frequency, total_words_list) ==
    IF frequency = 0 \/ frequency >= total_words_list THEN 0
    ELSE BinaryEntropy(frequency, total_words_list)

calculate_green_entropy(possible, char, pos) ==
    FrequencyEntropy(letter_frequencies(possible, pos, char), Len(possible))

calculate_yellow_entropy(possible, char, pos) ==
    FrequencyEntropy(
        SumSeq([other_pos \in 1..5 |->
                   IF other_pos # pos THEN letter_frequencies(possible, other_pos, char)
                   ELSE 0]),
        Len(possible))

calculate_white_entropy(possible, char) ==
    FrequencyEntropy(
        SumSeq([pos \in 1..5 |-> letter_frequencies(possible, pos, char)]),
        Len(possible))

\* EntropyScoreCalculator.__call__ after update_word_bank(possible, attempt_num)
EntropyScore(word, possible, attempt_num) ==
    LET letter_counts(pos) == Cardinality({q \in 1..pos : word[q] = word[pos]})
        char_weight(pos) ==
            IF word[pos] \in Vowels THEN vowel_pos_weights[pos]
            ELSE consonant_pos_weights[pos]
        term(pos) ==
            LET green == 60 * calculate_green_entropy(possible, word[pos], pos)
                yellow == (60 \div letter_counts(pos))
                              * calculate_yellow_entropy(possible, word[pos], pos)
                white == IF letter_counts(pos) > 1 THEN 0
                         ELSE 60 * calculate_white_entropy(possible, word[pos])
            IN  char_weight(pos) * (green + yellow + white)
        score == SumSeq([pos \in 1..Len(word) |-> term(pos)])
    IN  IF word \in Range(possible) THEN score * (gh_max_guesses + attempt_num)
        ELSE score * gh_max_guesses

\* lexicographic order of words (Python's str comparison)
RECURSIVE WordLess(_, _)
WordLess(v, w) ==
    IF v = <<>> THEN w # <<>>
    ELSE IF w = <<>> THEN FALSE
    ELSE Head(v) < Head(w) \/ (Head(v) = Head(w) /\ WordLess(Tail(v), Tail(w)))

\* Python's order of the tuples (number, word)
TupleLess(a, b) == a[1] < b[1] \/ (a[1] = b[1] /\ WordLess(a[2], b[2]))

\* heap[0]: the smallest tuple of a heap
HeapMin(heap) == CHOOSE a \in heap : \A b \in heap : a = b \/ TupleLess(a, b)

\* the loop of find_optimal_guesses; a heap is the set of its tuples
RECURSIVE ScoreLoop(_, _, _, _, _, _, _)
ScoreLoop(word_bank, possible, attempt_num, num_best, num_worst, best_heap, worst_heap) ==
    IF word_bank = <<>>
    THEN [best_words_heap |-> best_heap, worst_words_heap |-> worst_heap]
    ELSE LET word == Head(word_bank)
             word_score == EntropyScore(word, possible, attempt_num)
             pushed == best_heap \cup {<<word_score, word>>}
             best == IF Cardinality(best_heap) < num_best THEN pushed
                     ELSE pushed \ {HeapMin(pushed)}
             worst == IF Cardinality(worst_heap) < num_worst
                      THEN worst_heap \cup {<<-word_score, word>>}
                      ELSE (worst_heap \ {HeapMin(worst_heap)})
                               \cup {<<-word_score, word>>}
         IN  ScoreLoop(Tail(word_bank), possible, attempt_num, num_best, num_worst,
                       best, worst)

\* sorted(pairs) for pairs (word, score) with distinct words
RECURSIVE SortedPairs(_)
SortedPairs(pairs) ==
    IF pairs = {} THEN <<>>
    ELSE LET least == CHOOSE a \in pairs : \A b \in pairs : a = b \/ WordLess(a[1], b[1])
         IN  <<least>> \o SortedPairs(pairs \ {least})

Reversed(s) == [k \in 1..Len(s) |-> s[Len(s) + 1 - k]]

\* find_optimal_guesses: the lists returned, or the exception raised when a
\* word is scored against the empty letter_frequencies dict
find_optimal_guesses(full, possible, mode, attempt_num, num_best, num_worst) ==
    LET word_bank == IF mode THEN possible ELSE full
        heaps == ScoreLoop(word_bank, possible, attempt_num, num_best, num_worst, {}, {})
    IN  IF word_bank # <<>> /\ possible = <<>>
        THEN [err |-> "KeyError", best_words |-> <<>>, worst_words |-> <<>>]
        ELSE [err |-> "none",
              best_words |->
                  Reversed(SortedPairs({<<a[2], a[1]>> : a \in heaps.best_words_heap})),
              worst_words |->
                  SortedPairs({<<a[2], -a[1]>> : a \in heaps.worst_words_heap})]

----------------------------------------------------------------------------
(* Inputs. *)

Dictionary == WordBankFile(language)

\* the guesses a caller makes; abide is in no row of the german word bank
GuessesOf(lang) ==
    IF lang = "english" THEN {sassy, speed} ELSE {eisen, leben, abide}

\* the feedback (one-letter codes) a game could give for the guess
OracleFeedbacks(lang, guess) ==
    {Oracle(secret_word, guess) : secret_word \in Range(WordBankFile(lang))}

Truncated(feedback) == SubSeq(feedback, 1, Len(feedback) - 1)

\* feedback lists for process_guess: well formed ones, one too short, one
\* with a symbol that is no colour
FeedbackInputs(lang, guess) ==
    LET base == format_feedback(Oracle(WordBankFile(lang)[1], guess))
    IN  {format_feedback(f) : f \in OracleFeedbacks(lang, guess)}
        \cup {Truncated(base), [base EXCEPT ![1] = "blue"]}

\* feedback strings for cull_possible_word_bank
InfoInputs(lang, guess) ==
    LET base == Oracle(WordBankFile(lang)[1], guess)
    IN  OracleFeedbacks(lang, guess) \cup {Truncated(base), [base EXCEPT ![1] = "x"]}

\* the lists of (guess, feedback) pairs process_guesses is called with
ReplayInputs(lang) ==
    LET bank == WordBankFile(lang)
        fb(guess) == format_feedback(Oracle(bank[1], guess))
        p2 == <<bank[2], fb(bank[2])>>
        p3 == <<bank[3], fb(bank[3])>>
        short == <<bank[3], Truncated(fb(bank[3]))>>
    IN  {<<>>, <<p2>>, <<p2, p3>>, <<p3, p2>>, <<p2, short>>}

NumBestInputs == {1, 100}

\* num_worst of find_optimal_guesses (its default)
NumWorst == 3

\* num_worst as the caller passes it
NumWorstInputs == {1, NumWorst}

\* the attempt numbers the GUI passes to find_optimal_guesses
AttemptNumInputs == {0, 1}

\* the sessions a WordleGuesser is constructed for: the language and the
\* max_guesses of its Hyperparameters (6 is the default)
Sessions == {[language |-> "english", max_guesses |-> 3],
             [language |-> "german", max_guesses |-> 6]}

NoReturn == [sentinel |-> FALSE, words |-> <<>>]

\* GUIApp.__init__; also the value of gui in the programs without a GUI
NoGui == [secret_word |-> <<>>, current_row |-> 0, attempt_num |-> 0]

\* no second WordleGuesser has been constructed
NoSession == [possible_word_bank |-> <<>>, attempts |-> <<>>]

\* the programs without wordle_solver's scorer
NoSolver == [current_word_bank |-> <<>>]

\* the programs without a WordleTerminalHelper
NoTerminal == [pc |-> "none", attempt |-> 0, words |-> <<>>, feedback |-> <<>>, word |-> <<>>]

\* no score_word_bank call yet
NoScore ==
    [possible |-> <<>>, mode |-> TRUE, attempt_num |-> 0, max_guesses |-> 0, scores |-> <<>>, repeat |-> FALSE, earlier |-> <<>>]

Op(name, args) == [name |-> name, args |-> args]

----------------------------------------------------------------------------
(* The state after construction. *)

Init ==
    /\ app \in {"wordle_buddy", "guessing"}
    /\ language \in Languages
    /\ max_guesses \in {6} \cup {session.max_guesses : session \in Sessions}
    /\ app = "wordle_buddy" =>
           [language |-> language, max_guesses |-> max_guesses] \in Sessions
    /\ app = "guessing" => max_guesses = 6
    /\ full_word_bank =
           IF app = "wordle_buddy" THEN LoadWordBank(language).normalized_word_bank ELSE <<>>
    /\ ascii_converter_key =
           IF app = "wordle_buddy" THEN LoadWordBank(language).min_value ELSE 0
    /\ possible_word_bank = full_word_bank
    /\ attempts = <<>>
    /\ hardcore_mode = TRUE
    /\ gh_full_word_bank = IF app = "guessing" THEN WordBankFile(language) ELSE <<>>
    /\ gh_possible_word_bank = gh_full_word_bank
    /\ gh_hardcore_mode \in BOOLEAN
    /\ app = "wordle_buddy" => gh_hardcore_mode = TRUE
    /\ gui = NoGui
    /\ other = NoSession
    /\ solver = NoSolver
    /\ terminal = NoTerminal
    /\ scored = NoScore
    /\ op = Op("init", <<>>)
    /\ err = "none"
    /\ ret = NoReturn
    /\ failed = FALSE
    /\ before = IF app = "wordle_buddy" THEN possible_word_bank ELSE gh_possible_word_bank
    /\ calls = <<>>

----------------------------------------------------------------------------
(* WordleGuesser (wordle_buddy/guesser.py). *)

\* seeded fault: the sessions share one word bank manager and one list
other_session_shared(other_session, bank, atts) ==
    IF other_session = NoSession THEN other_session
    ELSE [other_session EXCEPT !.possible_word_bank = bank, !.attempts = atts]

\* what a call on one session leaves of another one: every WordleGuesser
\* builds its own WordBankManager, which loads its own arrays and copies
\* them, and its own attempts list
other_session_after(other_session, bank, atts) == other_session

\* seeded fault: the attempt is appended before cull, so also when it raises
process_guess_appends_first(bank, atts, key, guess, feedback) ==
    LET encoded == encode_word(guess, key)
        r == cull(bank, encoded, feedback)
    IN  [bank |-> r.bank, attempts |-> Append(atts, <<encoded, feedback>>), err |-> r.err]

\* process_guess: encode, cull, append; nothing is appended when cull raises
process_guess(bank, atts, key, guess, feedback) ==
    LET encoded == encode_word(guess, key)
        r == cull(bank, encoded, feedback)
    IN  [bank |-> r.bank,
         attempts |-> IF r.err = "none" THEN Append(atts, <<encoded, feedback>>) ELSE atts,
         err |-> r.err]

\* seeded fault: reset leaves the possible word bank as it is
reset_keeps(full) == possible_word_bank

\* WordBankManager.reset
reset(full) == full

\* the loop of process_guesses over zip(guesses, feedbacks)
RECURSIVE ProcessAll(_, _, _, _)
ProcessAll(pairs, bank, atts, key) ==
    IF pairs = <<>> THEN [bank |-> bank, attempts |-> atts, err |-> "none"]
    ELSE LET r == process_guess(bank, atts, key, Head(pairs)[1], Head(pairs)[2])
         IN  IF r.err # "none" THEN r
             ELSE ProcessAll(Tail(pairs), r.bank, r.attempts, key)

ProcessGuess(guess, feedback) ==
    /\ app = "wordle_buddy"
    /\ Len(attempts) < MaxCalls
    /\ \E r \in {process_guess(possible_word_bank, attempts, ascii_converter_key,
                               guess, feedback)} :
           /\ possible_word_bank' = r.bank
           /\ attempts' = r.attempts
           /\ err' = r.err
           /\ failed' = (failed \/ r.err # "none")
    /\ before' = possible_word_bank
    /\ op' = Op("process_guess", <<guess, feedback>>)
    /\ ret' = NoReturn
    /\ other' = other_session_after(other, possible_word_bank', attempts')
    /\ UNCHANGED <<app, language, terminal, gui, solver, scored, full_word_bank, ascii_converter_key, hardcore_mode,
                   max_guesses, guessing_vars>>

\* seeded fault: the pairs are replayed over the game as it is, without the
\* reset
ProcessGuessesWithoutReset(guesses, feedbacks) ==
    /\ app = "wordle_buddy"
    /\ IF Len(guesses) # Len(feedbacks)
       THEN /\ err' = "ValueError"
            /\ UNCHANGED <<possible_word_bank, attempts, failed>>
       ELSE \E r \in {ProcessAll([k \in 1..Len(guesses) |-> <<guesses[k], feedbacks[k]>>],
                                 possible_word_bank, attempts, ascii_converter_key)} :
                /\ possible_word_bank' = r.bank
                /\ attempts' = r.attempts
                /\ err' = r.err
                /\ failed' = (r.err # "none")
    /\ before' = possible_word_bank
    /\ op' = Op("process_guesses", <<guesses, feedbacks>>)
    /\ ret' = NoReturn
    /\ other' = other_session_after(other, possible_word_bank', attempts')
    /\ UNCHANGED <<app, language, terminal, gui, solver, scored, full_word_bank, ascii_converter_key, hardcore_mode,
                   max_guesses, guessing_vars>>

\* seeded fault: the game is reset before the lengths are compared
ProcessGuessesResetsFirst(guesses, feedbacks) ==
    /\ app = "wordle_buddy"
    /\ IF Len(guesses) # Len(feedbacks)
       THEN /\ err' = "ValueError"
            /\ possible_word_bank' = reset(full_word_bank)
            /\ attempts' = <<>>
            /\ UNCHANGED failed
       ELSE \E r \in {ProcessAll([k \in 1..Len(guesses) |-> <<guesses[k], feedbacks[k]>>],
                                 reset(full_word_bank), <<>>, ascii_converter_key)} :
                /\ possible_word_bank' = r.bank
                /\ attempts' = r.attempts
                /\ err' = r.err
                /\ failed' = (r.err # "none")
    /\ before' = possible_word_bank
    /\ op' = Op("process_guesses", <<guesses, feedbacks>>)
    /\ ret' = NoReturn
    /\ other' = other_session_after(other, possible_word_bank', attempts')
    /\ UNCHANGED <<app, language, terminal, gui, solver, scored, full_word_bank, ascii_converter_key, hardcore_mode,
                   max_guesses, guessing_vars>>

ProcessGuesses(guesses, feedbacks) ==
    /\ app = "wordle_buddy"
    /\ IF Len(guesses) # Len(feedbacks)
       THEN /\ err' = "ValueError"
            /\ UNCHANGED <<possible_word_bank, attempts, failed>>
       ELSE \E r \in {ProcessAll([k \in 1..Len(guesses) |-> <<guesses[k], feedbacks[k]>>],
                                 reset(full_word_bank), <<>>, ascii_converter_key)} :
                /\ possible_word_bank' = r.bank
                /\ attempts' = r.attempts
                /\ err' = r.err
                /\ failed' = (r.err # "none")
    /\ before' = possible_word_bank
    /\ op' = Op("process_guesses", <<guesses, feedbacks>>)
    /\ ret' = NoReturn
    /\ other' = other_session_after(other, possible_word_bank', attempts')
    /\ UNCHANGED <<app, language, terminal, gui, solver, scored, full_word_bank, ascii_converter_key, hardcore_mode,
                   max_guesses, guessing_vars>>

BestGuess(num_best_guesses) ==
    /\ app = "wordle_buddy"
    /\ ret' \in best_guess(full_word_bank, possible_word_bank, ascii_converter_key,
                           hardcore_mode, Len(attempts), max_guesses, num_best_guesses)
    /\ \E rows \in {IF Len(possible_word_bank) = 0
                      THEN current_word_bank(hardcore_mode, full_word_bank, possible_word_bank)
                      ELSE working_word_bank_after(current_word_bank(hardcore_mode, full_word_bank, possible_word_bank), possible_word_bank, Len(attempts) + 1, max_guesses)} :
           /\ possible_word_bank' = IF hardcore_mode = TRUE THEN rows ELSE possible_word_bank
           /\ full_word_bank' = IF hardcore_mode = TRUE THEN full_word_bank ELSE rows
    /\ before' = possible_word_bank
    /\ op' = Op("best_guess", <<num_best_guesses>>)
    /\ err' = "none"
    /\ other' = other_session_after(other, possible_word_bank', attempts')
    /\ UNCHANGED <<app, language, terminal, gui, solver, scored, ascii_converter_key, attempts, hardcore_mode, max_guesses, failed, guessing_vars>>

ResetGame ==
    /\ app = "wordle_buddy"
    /\ possible_word_bank' = reset(full_word_bank)
    /\ attempts' = <<>>
    /\ failed' = FALSE
    /\ before' = possible_word_bank
    /\ op' = Op("reset_game", <<>>)
    /\ err' = "none"
    /\ ret' = NoReturn
    /\ other' = other_session_after(other, possible_word_bank', attempts')
    /\ UNCHANGED <<app, language, terminal, gui, solver, scored, full_word_bank, ascii_converter_key, hardcore_mode,
                   max_guesses, guessing_vars>>

ToggleMode(mode) ==
    /\ app = "wordle_buddy"
    /\ hardcore_mode' = mode
    /\ before' = possible_word_bank
    /\ op' = Op("toggle_mode", <<mode>>)
    /\ err' = "none"
    /\ ret' = NoReturn
    /\ UNCHANGED <<app, language, terminal, gui, other, solver, scored, full_word_bank, ascii_converter_key,
                   possible_word_bank, attempts, max_guesses, failed, guessing_vars>>

\* WordScorerEntropy.score_word_bank called on the scorer of the session.
\* scored remembers what the call read and returned, whether the call
\* before it read the same, and then what that one returned.
ScoreWordBank(attempt_num) ==
    /\ app = "wordle_buddy"
    /\ \E scores \in {score_word_bank(current_word_bank(hardcore_mode, full_word_bank, possible_word_bank), possible_word_bank, attempt_num, max_guesses)} :
           \E repeat \in {/\ scored.attempt_num # 0
                          /\ scored.possible = possible_word_bank
                          /\ scored.mode = hardcore_mode
                          /\ scored.attempt_num = attempt_num
                          /\ scored.max_guesses = max_guesses} :
               /\ ret' = [scores |-> scores,
                          char_freq_table |->
                              [pos \in 1..5 |->
                                  [char \in UNION {Range(full_word_bank[k]) : k \in 1..Len(full_word_bank)} |->
                                      char_freq_table(possible_word_bank, char, pos)]]]
               /\ scored' = [possible |-> possible_word_bank,
                             mode |-> hardcore_mode,
                             attempt_num |-> attempt_num,
                             max_guesses |-> max_guesses,
                             scores |-> scores,
                             repeat |-> repeat,
                             earlier |-> IF repeat THEN scored.scores ELSE <<>>]
    /\ \E rows \in {working_word_bank_after(current_word_bank(hardcore_mode, full_word_bank, possible_word_bank), possible_word_bank, attempt_num, max_guesses)} :
           /\ possible_word_bank' = IF hardcore_mode = TRUE THEN rows ELSE possible_word_bank
           /\ full_word_bank' = IF hardcore_mode = TRUE THEN full_word_bank ELSE rows
    /\ before' = possible_word_bank
    /\ op' = Op("score_word_bank", <<attempt_num>>)
    /\ err' = "none"
    /\ UNCHANGED <<app, language, terminal, gui, other, solver, ascii_converter_key, attempts, hardcore_mode, max_guesses, failed, guessing_vars>>

----------------------------------------------------------------------------
(* GuessHelper (guessing.py). *)

CullPossibleWordBank(guessed_word, guessed_word_info) ==
    /\ app = "guessing"
    /\ Len(calls) < MaxCalls
    /\ \E r \in {cull_possible_word_bank(gh_full_word_bank, gh_possible_word_bank,
                                         guessed_word, guessed_word_info)} :
           /\ gh_possible_word_bank' = r.bank
           /\ err' = r.err
           /\ calls' = IF r.err = "none"
                       THEN Append(calls, <<guessed_word, guessed_word_info>>)
                       ELSE calls
    /\ before' = gh_possible_word_bank
    /\ op' = Op("cull_possible_word_bank", <<guessed_word, guessed_word_info>>)
    /\ ret' = NoReturn
    /\ UNCHANGED <<app, language, terminal, gui, other, solver, scored, buddy_vars, gh_full_word_bank, gh_hardcore_mode>>

FindOptimalGuesses(attempt_num, num_best, num_worst) ==
    /\ app = "guessing"
    /\ \E r \in {find_optimal_guesses(gh_full_word_bank, gh_possible_word_bank,
                                      gh_hardcore_mode, attempt_num, num_best, num_worst)} :
           /\ err' = r.err
           /\ ret' = [best_words |-> r.best_words, worst_words |-> r.worst_words]
    /\ before' = gh_possible_word_bank
    /\ op' = Op("find_optimal_guesses", <<attempt_num, num_best, num_worst>>)
    /\ UNCHANGED <<app, language, terminal, gui, other, solver, scored, buddy_vars, guessing_vars>>

----------------------------------------------------------------------------

Next ==
    \/ \E guess \in GuessesOf(language) :
           \E feedback \in FeedbackInputs(language, guess) : ProcessGuess(guess, feedback)
    \/ \E pairs \in ReplayInputs(language) :
           ProcessGuesses([k \in 1..Len(pairs) |-> pairs[k][1]],
                          [k \in 1..Len(pairs) |-> pairs[k][2]])
    \/ ProcessGuesses(<<WordBankFile(language)[1]>>, <<>>)
    \/ \E num_best_guesses \in NumBestInputs : BestGuess(num_best_guesses)
    \/ ResetGame
    \/ \E mode \in BOOLEAN : ToggleMode(mode)
    \/ \E guess \in GuessesOf(language) :
           \E info \in InfoInputs(language, guess) : CullPossibleWordBank(guess, info)
    \/ \E attempt_num \in AttemptNumInputs : \E num_best \in NumBestInputs :
           \E num_worst \in NumWorstInputs :
               FindOptimalGuesses(attempt_num, num_best, num_worst)

Spec == Init /\ [][Next]_vars

----------------------------------------------------------------------------
(* A WordleGuesser session whose scorer is also called directly. *)

\* the attempt numbers score_word_bank is called with: the first attempt
\* and the last one
ScoreAttemptInputs(hparams_max_guesses) == {1, hparams_max_guesses}

\* well-formed feedback lists: what the oracle says for some secret, and
\* all green (which no word of the bank matches when the guess is not in it)
ScoredFeedbackInputs(lang, guess) ==
    {format_feedback(f) : f \in OracleFeedbacks(lang, guess)}
        \cup {[pos \in 1..Len(guess) |-> "green"]}

\* the culls of a session whose scorer is called directly
MaxScoredCalls == 1

ScorerInit == Init /\ app = "wordle_buddy"

ScorerNext ==
    \/ /\ Len(attempts) < MaxScoredCalls
       /\ \E guess \in GuessesOf(language) :
              \E feedback \in ScoredFeedbackInputs(language, guess) : ProcessGuess(guess, feedback)
    \/ ResetGame
    \/ \E mode \in BOOLEAN : ToggleMode(mode)
    \/ \E attempt_num \in ScoreAttemptInputs(max_guesses) : ScoreWordBank(attempt_num)

ScorerSpec == ScorerInit /\ [][ScorerNext]_vars

----------------------------------------------------------------------------
(* wordle_solver: WordBankManager.cull and WordScorerEntropy.  The filters *)
(* _remove_gray and _remove_green and _regular_removal read as the ones of *)
(* wordle_buddy; _remove_yellow looks for the letter in every column.      *)
(* A score counts units of 1/7200 for the penalty factors                  *)
(* ((1 + 1/k)/2)(1/k), k in 1..5, times 1/max_guesses for the answer       *)
(* weight.                                                                 *)

ws_remove_yellow(bank, idx, correct) ==
    LET contains_letter(w) == \E p \in 1..Len(w) : w[p] = correct
        wrong_position(w) == w[idx] # correct
        mask(w) == contains_letter(w) /\ wrong_position(w)
    IN  SelectSeq(bank, mask)

_remove_duplicate_letters(bank, letter, max_count) ==
    LET counts(w) == Count(w, letter)
        mask(w) == counts(w) <= max_count
    IN  SelectSeq(bank, mask)

\* for i, color in zip(indices, feedback): the greens and yellows in turn
RECURSIVE ws_RemoveColours(_, _, _, _)
ws_RemoveColours(bank, indices, information, letter) ==
    IF indices = <<>> THEN bank
    ELSE LET i == Head(indices)
             color == information[i]
             next == IF color = "green" THEN _remove_green(bank, i, letter)
                     ELSE IF color = "yellow" THEN ws_remove_yellow(bank, i, letter)
                     ELSE bank
         IN  ws_RemoveColours(next, Tail(indices), information, letter)

\* the body of the loop of cull for a letter with count > 1
ws_CullRepeated(bank, letter, indices, information) ==
    LET feedback == [k \in 1..Len(indices) |-> information[indices[k]]]
        n_gray == Cardinality({k \in 1..Len(feedback) : feedback[k] = "gray"})
        capped == IF n_gray > 0
                  THEN _remove_duplicate_letters(bank, letter, Len(feedback) - n_gray)
                  ELSE bank
    IN  ws_RemoveColours(capped, indices, information, letter)

RECURSIVE ws_CullLoop(_, _, _, _)
ws_CullLoop(letters, bank, guess, information) ==
    IF letters = <<>> THEN [bank |-> bank, err |-> "none"]
    ELSE LET letter == Head(letters)
             count == _find_duplicates(guess)[letter]
             indices == Ascending({p \in 1..Len(guess) : guess[p] = letter})
         IN  IF \E p \in Range(indices) : p > Len(information)
                 THEN [bank |-> bank, err |-> "IndexError"]
             ELSE IF Len(bank) = 0
                 THEN [bank |-> bank, err |-> "none"]
             ELSE IF count = 1
                 THEN ws_CullLoop(Tail(letters),
                                  _regular_removal(bank, letter, indices[1], information[indices[1]]),
                                  guess, information)
             ELSE ws_CullLoop(Tail(letters),
                              ws_CullRepeated(bank, letter, indices, information),
                              guess, information)

\* wordle_solver's WordBankManager.cull(guess, information)
ws_cull(bank, guess, information) ==
    ws_CullLoop(Ascending(DOMAIN _find_duplicates(guess)), bank, guess, information)

\* the bank score_word_bank counts letters in: self.current_word_bank, the
\* array toggle_mode chose (full_word_bank if hardcore_mode, else the array
\* possible_word_bank referred to then)
ws_current_word_bank(current, mode, full, possible) == current

\* green_entropy + yellow_entropy + white_entropy of a letter at a position
weighted_entropy(current, char, pos) ==
    Plus(green_entropy(current, char, pos),
         Plus(yellow_entropy(current, char, pos), white_entropy(current, char)))

\* yellow_penalty_factors * white_penalty_factors where the letter is
\* repeated in the word, else 1; in 1/7200
PenaltyFactor(char_frequencies) ==
    (7200 * (char_frequencies + 1)) \div (2 * char_frequencies * char_frequencies)

\* Hyperparameters.answer_weight_base
answer_weight_base == 1

\* 1 + is_potential_answer * answer_weights, in 1/max_guesses; every entry
\* of np.isin(possible_word_bank, possible_word_bank) is True
AnswerFactor(attempt_num, hparams_max_guesses) ==
    hparams_max_guesses + answer_weight_base * (hparams_max_guesses + attempt_num)

\* wordle_solver's score_word_bank: one score per row of possible_word_bank,
\* the product of its two fields
ws_score_word_bank(current, possible, attempt_num, hparams_max_guesses) ==
    [k \in 1..Len(possible) |->
        [weighted_entropy |->
             SumEntropies([pos \in 1..Len(possible[k]) |->
                 Scale(PenaltyFactor(Count(possible[k], possible[k][pos])),
                       weighted_entropy(current, possible[k][pos], pos))]),
         answer_weight |-> AnswerFactor(attempt_num, hparams_max_guesses)]]

\* WordBankManager(language), then WordScorerEntropy(word_bank, hparams)
\* with hardcore_mode=False: toggle_mode chooses possible_word_bank
SolverInit ==
    /\ app = "wordle_solver"
    /\ language \in Languages
    /\ max_guesses = 6
    /\ full_word_bank = LoadWordBank(language).normalized_word_bank
    /\ ascii_converter_key = LoadWordBank(language).min_value
    /\ possible_word_bank = full_word_bank
    /\ attempts = <<>>
    /\ hardcore_mode = FALSE
    /\ solver = [current_word_bank |-> possible_word_bank]
    /\ terminal = NoTerminal
    /\ gh_full_word_bank = <<>>
    /\ gh_possible_word_bank = <<>>
    /\ gh_hardcore_mode = TRUE
    /\ gui = NoGui
    /\ other = NoSession
    /\ scored = NoScore
    /\ op = Op("init", <<>>)
    /\ err = "none"
    /\ ret = NoReturn
    /\ failed = FALSE
    /\ before = possible_word_bank
    /\ calls = <<>>

SolverCull(guess, information) ==
    /\ app = "wordle_solver"
    /\ \E r \in {ws_cull(possible_word_bank, encode_word(guess, ascii_converter_key), information)} :
           /\ possible_word_bank' = r.bank
           /\ err' = r.err
    /\ before' = possible_word_bank
    /\ op' = Op("cull", <<guess, information>>)
    /\ ret' = NoReturn
    /\ UNCHANGED <<app, language, terminal, gui, other, solver, scored, full_word_bank, ascii_converter_key, attempts, hardcore_mode, max_guesses, failed, guessing_vars>>

SolverReset ==
    /\ app = "wordle_solver"
    /\ possible_word_bank' = reset(full_word_bank)
    /\ before' = possible_word_bank
    /\ op' = Op("reset", <<>>)
    /\ err' = "none"
    /\ ret' = NoReturn
    /\ UNCHANGED <<app, language, terminal, gui, other, solver, scored, full_word_bank, ascii_converter_key, attempts, hardcore_mode, max_guesses, failed, guessing_vars>>

SolverToggleMode(mode) ==
    /\ app = "wordle_solver"
    /\ hardcore_mode' = mode
    /\ solver' = [solver EXCEPT !.current_word_bank = IF mode THEN full_word_bank ELSE possible_word_bank]
    /\ before' = possible_word_bank
    /\ op' = Op("toggle_mode", <<mode>>)
    /\ err' = "none"
    /\ ret' = NoReturn
    /\ UNCHANGED <<app, language, terminal, gui, other, scored, full_word_bank, ascii_converter_key, possible_word_bank, attempts, max_guesses, failed, guessing_vars>>

SolverScoreWordBank(attempt_num) ==
    /\ app = "wordle_solver"
    /\ ret' = [scores |-> ws_score_word_bank(ws_current_word_bank(solver.current_word_bank, hardcore_mode, full_word_bank, possible_word_bank), possible_word_bank, attempt_num, max_guesses)]
    /\ before' = possible_word_bank
    /\ op' = Op("score_word_bank", <<attempt_num>>)
    /\ err' = "none"
    /\ UNCHANGED <<app, language, terminal, gui, other, solver, scored, buddy_vars, guessing_vars>>

SolverNext ==
    \/ \E guess \in GuessesOf(language) :
           \E information \in ScoredFeedbackInputs(language, guess) : SolverCull(guess, information)
    \/ SolverReset
    \/ \E mode \in BOOLEAN : SolverToggleMode(mode)
    \/ \E attempt_num \in ScoreAttemptInputs(max_guesses) : SolverScoreWordBank(attempt_num)

SolverSpec == SolverInit /\ [][SolverNext]_vars

----------------------------------------------------------------------------
(* Two WordleGuesser sessions of one process, built for the same language  *)
(* with the default hparams: the variables of the WordleGuesser section    *)
(* are the first session, other is the second; max_guesses is the one      *)
(* Hyperparameters instance both refer to (the default argument).          *)

TwoInit ==
    /\ app = "wordle_buddy"
    /\ language \in Languages
    /\ max_guesses = 6
    /\ full_word_bank = LoadWordBank(language).normalized_word_bank
    /\ ascii_converter_key = LoadWordBank(language).min_value
    /\ possible_word_bank = full_word_bank
    /\ attempts = <<>>
    /\ hardcore_mode = TRUE
    /\ gh_full_word_bank = <<>>
    /\ gh_possible_word_bank = <<>>
    /\ gh_hardcore_mode = TRUE
    /\ gui = NoGui
    /\ other = [possible_word_bank |-> LoadWordBank(language).normalized_word_bank, attempts |-> <<>>]
    /\ solver = NoSolver
    /\ terminal = NoTerminal
    /\ scored = NoScore
    /\ op = Op("init", <<>>)
    /\ err = "none"
    /\ ret = NoReturn
    /\ failed = FALSE
    /\ before = possible_word_bank
    /\ calls = <<>>

\* process_guess on the second session
OtherProcessGuess(guess, feedback) ==
    /\ app = "wordle_buddy"
    /\ other # NoSession
    /\ Len(other.attempts) < MaxScoredCalls
    /\ \E r \in {process_guess(other.possible_word_bank, other.attempts, ascii_converter_key, guess, feedback)} :
           /\ other' = [other EXCEPT !.possible_word_bank = r.bank, !.attempts = r.attempts]
           /\ err' = r.err
           /\ \E mine \in {other_session_after([possible_word_bank |-> possible_word_bank, attempts |-> attempts], r.bank, r.attempts)} :
                  /\ possible_word_bank' = mine.possible_word_bank
                  /\ attempts' = mine.attempts
    /\ before' = other.possible_word_bank
    /\ op' = Op("other.process_guess", <<guess, feedback>>)
    /\ ret' = NoReturn
    /\ UNCHANGED <<app, language, terminal, gui, solver, scored, full_word_bank, ascii_converter_key, hardcore_mode, max_guesses, failed, guessing_vars>>

\* reset_game on the second session
OtherResetGame ==
    /\ app = "wordle_buddy"
    /\ other # NoSession
    /\ \E bank \in {reset(LoadWordBank(language).normalized_word_bank)} :
           /\ other' = [other EXCEPT !.possible_word_bank = bank, !.attempts = <<>>]
           /\ \E mine \in {other_session_after([possible_word_bank |-> possible_word_bank, attempts |-> attempts], bank, <<>>)} :
                  /\ possible_word_bank' = mine.possible_word_bank
                  /\ attempts' = mine.attempts
    /\ before' = other.possible_word_bank
    /\ op' = Op("other.reset_game", <<>>)
    /\ err' = "none"
    /\ ret' = NoReturn
    /\ UNCHANGED <<app, language, terminal, gui, solver, scored, full_word_bank, ascii_converter_key, hardcore_mode, max_guesses, failed, guessing_vars>>

TwoNext ==
    \/ /\ Len(attempts) < MaxScoredCalls
       /\ \E guess \in GuessesOf(language) :
              \E feedback \in ScoredFeedbackInputs(language, guess) : ProcessGuess(guess, feedback)
    \/ \E guess \in GuessesOf(language) :
           \E feedback \in ScoredFeedbackInputs(language, guess) :
               ProcessGuesses(<<guess>>, <<feedback>>)
    \/ \E num_best_guesses \in NumBestInputs : BestGuess(num_best_guesses)
    \/ ResetGame
    \/ \E guess \in GuessesOf(language) :
           \E feedback \in ScoredFeedbackInputs(language, guess) : OtherProcessGuess(guess, feedback)
    \/ OtherResetGame

TwoSpec == TwoInit /\ [][TwoNext]_vars

----------------------------------------------------------------------------
(* WordBankManager.cull and GuessHelper.cull_possible_word_bank called     *)
(* directly, once or twice in a row, on the word bank of a fresh session   *)
(* and on every bank such calls leave behind.                              *)

\* the guesses of the calls: the words of the word bank and the guesses of
\* a caller
CullGuesses(lang) == Range(WordBankFile(lang)) \cup GuessesOf(lang)

\* well formed feedback as one-letter codes: what a game could answer, and
\* all green
CullInfoInputs(lang, guess) ==
    OracleFeedbacks(lang, guess) \cup {[pos \in 1..Len(guess) |-> "g"]}

CullInit ==
    /\ Init
    /\ gh_hardcore_mode = TRUE

\* cull(guess1, feedback1), then cull(guess2, feedback2)
CullTwice(guess1, feedback1, guess2, feedback2) ==
    /\ app = "wordle_buddy"
    /\ \E r1 \in {cull(possible_word_bank, encode_word(guess1, ascii_converter_key), feedback1)} :
           \E r2 \in {cull(r1.bank, encode_word(guess2, ascii_converter_key), feedback2)} :
               /\ possible_word_bank' = r2.bank
               /\ ret' = [first |-> r1.bank]
               /\ err' = IF r1.err # "none" THEN r1.err ELSE r2.err
    /\ before' = possible_word_bank
    /\ op' = Op("cull;cull", <<guess1, feedback1, guess2, feedback2>>)
    /\ other' = other_session_after(other, possible_word_bank', attempts')
    /\ UNCHANGED <<app, language, terminal, gui, solver, scored, full_word_bank, ascii_converter_key, attempts, hardcore_mode, max_guesses, failed, guessing_vars>>

\* cull_possible_word_bank twice in a row
GhCullTwice(guess1, info1, guess2, info2) ==
    /\ app = "guessing"
    /\ \E r1 \in {cull_possible_word_bank(gh_full_word_bank, gh_possible_word_bank, guess1, info1)} :
           \E r2 \in {cull_possible_word_bank(gh_full_word_bank, r1.bank, guess2, info2)} :
               /\ gh_possible_word_bank' = r2.bank
               /\ ret' = [first |-> r1.bank]
               /\ err' = IF r1.err # "none" THEN r1.err ELSE r2.err
    /\ before' = gh_possible_word_bank
    /\ op' = Op("cull;cull", <<guess1, info1, guess2, info2>>)
    /\ UNCHANGED <<app, language, terminal, gui, other, solver, scored, buddy_vars, gh_full_word_bank, gh_hardcore_mode, calls>>

CullNext ==
    \/ \E guess1 \in CullGuesses(language), guess2 \in GuessesOf(language) :
           \E info1 \in CullInfoInputs(language, guess1), info2 \in CullInfoInputs(language, guess2) :
               CullTwice(guess1, format_feedback(info1), guess2, format_feedback(info2))
    \/ \E guess1 \in Range(gh_full_word_bank), guess2 \in GuessesOf(language) \cap Range(gh_full_word_bank) :
           \E info1 \in CullInfoInputs(language, guess1), info2 \in CullInfoInputs(language, guess2) :
               GhCullTwice(guess1, info1, guess2, info2)

CullSpec == CullInit /\ [][CullNext]_vars

----------------------------------------------------------------------------
(* WordleTerminalHelper (wordle_solver/terminal_version.py): play() and    *)
(* prompt_guess_and_feedback, one step per line read from the terminal.    *)
(* A typed line is a sequence of ordinals (a word) or of one-letter        *)
(* strings (a feedback); None is written as the empty sequence, which no   *)
(* prompt returns otherwise.  The lines are typed in lower case.           *)

NoneValue == <<>>

\* 'exit' typed at the word prompt
ExitWord == <<101, 120, 105, 116>>

\* 'exit' typed at the feedback prompt
ExitFeedback == <<"e", "x", "i", "t">>

\* five-letter words that are not in the word bank of the language
UnknownWords(lang) == IF lang = "english" THEN {leben} ELSE {speed, abide}

\* what the player types at the word prompt
TerminalWordInputs(lang) ==
    {ExitWord, <<Ord["a"], Ord["b"]>>, WordBankFile(lang)[1]} \cup UnknownWords(lang)

\* what the player types at the feedback prompt
TerminalFeedbackInputs ==
    {ExitFeedback, <<"g", "y">>, <<"g", "g", "x", "y", "w">>,
     <<"g", "g", "w", "y", "w">>, <<"g", "g", "g", "g", "g">>}

\* WordleGuesser.process_guesses of wordle_solver: reset, then cull with
\* every pair in order
RECURSIVE ws_process_guesses(_, _, _, _)
ws_process_guesses(bank, words, feedbacks, key) ==
    IF words = <<>> \/ feedbacks = <<>> THEN [bank |-> bank, err |-> "none"]
    ELSE LET r == ws_cull(bank, encode_word(Head(words), key), Head(feedbacks))
         IN  IF r.err # "none" THEN r
             ELSE ws_process_guesses(r.bank, Tail(words), Tail(feedbacks), key)

\* one pass of the first loop of prompt_guess_and_feedback for a typed word:
\* return None, None; continue; or break.  The test for a word outside the
\* word bank prints and falls through to the break.
word_loop(word, full, key) ==
    IF word = ExitWord THEN "return"
    ELSE IF Len(word) # 5 THEN "continue"
    ELSE IF SeqMin(encode_word(word, key)) < 0 THEN "continue"
    ELSE "break"

\* one pass of the second loop for a typed feedback: the statement under
\* the test for 'exit' is the expression None, None and returns nothing
feedback_loop(feedback, word) ==
    IF Len(feedback) # Len(word) \/ \E k \in 1..Len(feedback) : feedback[k] \notin {"g", "y", "w"}
    THEN "continue"
    ELSE "break"

\* attempts = [1, 2, 3, 4, 5, 6] of play
LastAttempt == 6

\* WordleTerminalHelper(language), then play() up to its first
\* generate_guesses
TerminalInit ==
    /\ app = "terminal"
    /\ language \in Languages
    /\ max_guesses = 6
    /\ full_word_bank = LoadWordBank(language).normalized_word_bank
    /\ ascii_converter_key = LoadWordBank(language).min_value
    /\ possible_word_bank = full_word_bank
    /\ attempts = <<>>
    /\ hardcore_mode = FALSE
    /\ gh_full_word_bank = <<>>
    /\ gh_possible_word_bank = <<>>
    /\ gh_hardcore_mode = TRUE
    /\ gui = NoGui
    /\ other = NoSession
    /\ solver = [current_word_bank |-> possible_word_bank]
    /\ terminal = [pc |-> "generate", attempt |-> 1, words |-> <<>>, feedback |-> <<>>, word |-> <<>>]
    /\ scored = NoScore
    /\ op = Op("init", <<>>)
    /\ err = "none"
    /\ ret = NoReturn
    /\ failed = FALSE
    /\ before = possible_word_bank
    /\ calls = <<>>

\* generate_guesses(num_best_guesses=3): process_guesses over self.data,
\* toggle_mode(False), best_guess (whose list is only printed)
GenerateGuesses ==
    /\ app = "terminal"
    /\ terminal.pc = "generate"
    /\ \E r \in {ws_process_guesses(reset(full_word_bank), terminal.words, terminal.feedback, ascii_converter_key)} :
           /\ possible_word_bank' = r.bank
           /\ err' = r.err
           /\ terminal' = [terminal EXCEPT !.pc = IF r.err = "none" THEN "word" ELSE "done"]
           /\ solver' = [solver EXCEPT !.current_word_bank = r.bank]
    /\ hardcore_mode' = FALSE
    /\ before' = possible_word_bank
    /\ op' = Op("generate_guesses", <<>>)
    /\ ret' = NoReturn
    /\ UNCHANGED <<app, language, gui, other, scored, full_word_bank, ascii_converter_key, attempts, max_guesses, failed, guessing_vars>>

\* a line typed at the word prompt.  On 'exit' the prompt returns
\* None, None; play appends None to the words and format_feedback(None)
\* raises TypeError.
EnterWord(word) ==
    /\ app = "terminal"
    /\ terminal.pc = "word"
    /\ \E outcome \in {word_loop(word, full_word_bank, ascii_converter_key)} :
           /\ terminal' =
                  IF outcome = "return"
                  THEN [terminal EXCEPT !.pc = "done", !.words = Append(terminal.words, NoneValue)]
                  ELSE IF outcome = "break"
                  THEN [terminal EXCEPT !.pc = "feedback", !.word = word]
                  ELSE terminal
           /\ err' = IF outcome = "return" THEN "TypeError" ELSE "none"
           /\ ret' = IF outcome = "return" THEN [word |-> NoneValue, feedback |-> NoneValue] ELSE NoReturn
    /\ op' = Op("input word", <<word>>)
    /\ UNCHANGED <<app, language, gui, other, solver, scored, buddy_vars, guessing_vars, before>>

\* a line typed at the feedback prompt.  A well formed one makes the prompt
\* return; play appends to self.data and ends the loop on 'ggggg' or after
\* the last attempt.
EnterFeedback(feedback) ==
    /\ app = "terminal"
    /\ terminal.pc = "feedback"
    /\ \E outcome \in {feedback_loop(feedback, terminal.word)} :
           /\ terminal' =
                  IF outcome = "continue" THEN terminal
                  ELSE [terminal EXCEPT
                           !.words = Append(terminal.words, terminal.word),
                           !.feedback = Append(terminal.feedback, format_feedback(feedback)),
                           !.attempt = IF feedback = <<"g", "g", "g", "g", "g">> \/ terminal.attempt = LastAttempt
                                       THEN terminal.attempt ELSE terminal.attempt + 1,
                           !.pc = IF feedback = <<"g", "g", "g", "g", "g">> \/ terminal.attempt = LastAttempt
                                  THEN "done" ELSE "generate"]
           /\ ret' = IF outcome = "continue" THEN NoReturn
                     ELSE [word |-> terminal.word, feedback |-> feedback]
    /\ err' = "none"
    /\ op' = Op("input feedback", <<feedback>>)
    /\ UNCHANGED <<app, language, gui, other, solver, scored, buddy_vars, guessing_vars, before>>

TerminalNext ==
    \/ GenerateGuesses
    \/ \E word \in TerminalWordInputs(language) : EnterWord(word)
    \/ \E feedback \in TerminalFeedbackInputs : EnterFeedback(feedback)

TerminalSpec == TerminalInit /\ [][TerminalNext]_vars

----------------------------------------------------------------------------
(* GUIApp (gui.py) over the GuessHelper it was given.                      *)

\* rows of the result grid
MaxRows == 6

\* num_best when find_optimal_guesses is called without it
NumBestDefault == 5

\* the words typed into the entries: the words of the word bank, words over
\* a and b with repeated letters, and one word that is too short
BinaryWords ==
    {W("a", "b", "b", "a", "b"), W("b", "a", "a", "a", "b"), W("a", "a", "b", "b", "a"), W("b", "b", "a", "b", "a")}

TypedWords == BinaryWords \cup Range(WordBankFile("english")) \cup {<<Ord["a"], Ord["b"]>>}

\* update_guess_info: both format strings raise on a (word, score) pair
update_guess_info(best_guesses, worst_guesses) ==
    IF best_guesses # <<>> \/ worst_guesses # <<>> THEN "ValueError" ELSE "none"

\* main.py: language = 'english', hardcore_mode=True
GuiInit ==
    /\ app = "gui"
    /\ language = "english"
    /\ max_guesses = gh_max_guesses
    /\ full_word_bank = <<>>
    /\ ascii_converter_key = 0
    /\ possible_word_bank = <<>>
    /\ attempts = <<>>
    /\ hardcore_mode = TRUE
    /\ gh_full_word_bank = WordBankFile(language)
    /\ gh_possible_word_bank = gh_full_word_bank
    /\ gh_hardcore_mode = TRUE
    /\ gui = NoGui
    /\ other = NoSession
    /\ solver = NoSolver
    /\ terminal = NoTerminal
    /\ scored = NoScore
    /\ op = Op("init", <<>>)
    /\ err = "none"
    /\ ret = NoReturn
    /\ failed = FALSE
    /\ before = gh_possible_word_bank
    /\ calls = <<>>

\* set_word; the entry and the button are disabled once a word is set
SetWord(word) ==
    /\ app = "gui"
    /\ gui.secret_word = <<>>
    /\ IF Len(word) # 5
       THEN /\ err' = "none"
            /\ UNCHANGED gui
       ELSE /\ gui' = [gui EXCEPT !.secret_word = word]
            /\ \E f \in {find_optimal_guesses(gh_full_word_bank, gh_possible_word_bank, gh_hardcore_mode, gui.attempt_num, NumBestDefault, NumWorst)} :
                   err' = IF f.err # "none" THEN f.err
                          ELSE update_guess_info(f.best_words, f.worst_words)
    /\ before' = gh_possible_word_bank
    /\ op' = Op("set_word", <<word>>)
    /\ ret' = NoReturn
    /\ UNCHANGED <<app, language, terminal, other, solver, scored, buddy_vars, guessing_vars>>

\* submit_guess: the oracle, then the cull and the new suggestions; an
\* exception ends the handler where it is raised
SubmitGuess(guess) ==
    /\ app = "gui"
    /\ before' = gh_possible_word_bank
    /\ op' = Op("submit_guess", <<guess>>)
    /\ UNCHANGED <<app, language, terminal, other, solver, scored, buddy_vars, gh_full_word_bank, gh_hardcore_mode>>
    /\ IF Len(guess) # 5
       THEN /\ err' = "none"
            /\ ret' = NoReturn
            /\ UNCHANGED <<gui, gh_possible_word_bank, calls>>
       ELSE IF gui.current_row >= MaxRows
       THEN /\ err' = "none"
            /\ ret' = NoReturn
            /\ UNCHANGED <<gui, gh_possible_word_bank, calls>>
       ELSE IF gui.secret_word = <<>>
       THEN /\ err' = "AttributeError"
            /\ ret' = NoReturn
            /\ UNCHANGED <<gui, gh_possible_word_bank, calls>>
       ELSE \E result \in {Oracle(gui.secret_word, guess)} :
            \E r \in {cull_possible_word_bank(gh_full_word_bank, gh_possible_word_bank, guess, result)} :
            \E shown \in {IF r.err # "none" THEN r.err
                          ELSE LET f == find_optimal_guesses(gh_full_word_bank, r.bank, gh_hardcore_mode, gui.attempt_num, NumBestDefault, NumWorst)
                               IN  IF f.err # "none" THEN f.err
                                   ELSE update_guess_info(f.best_words, f.worst_words)} :
                /\ ret' = [result |-> result]
                /\ gh_possible_word_bank' = r.bank
                /\ UNCHANGED calls
                /\ err' = shown
                /\ gui' = [gui EXCEPT !.current_row = @ + 1,
                                      !.attempt_num = IF shown = "none" THEN @ + 1 ELSE @]

GuiNext ==
    \/ \E word \in TypedWords : SetWord(word)
    \/ \E guess \in TypedWords : SubmitGuess(guess)

GuiSpec == GuiInit /\ [][GuiNext]_vars

----------------------------------------------------------------------------
(* Construction of Hyperparameters: the dataclass of wordle_buddy and the  *)
(* class of archive/hyperparameters.py that guessing.py and main.py import.*)
(* Weights and penalties are in tenths.                                    *)

\* position weights offered to the constructors: the two defaults, then a
\* zero entry and a negative entry
WeightInputs ==
    {<<12, 12, 12, 12, 12>>, <<15, 10, 12, 11, 15>>, <<12, 0, 12, 12, 12>>, <<15, 10, 12, 11, -15>>}

PenaltyInputs == {-13, 0, 13, 20}

MaxGuessesInputs == {-1, 0, 6}

HyperparametersInputs ==
    [vowel_pos_weights : WeightInputs, consonant_pos_weights : WeightInputs, repeat_letter_penalty : PenaltyInputs, mismatch_penalty : PenaltyInputs, max_guesses : MaxGuessesInputs]

\* wordle_buddy: __post_init__ after the generated __init__ ("none" when it returns)
__post_init__(self) ==
    IF ~(\A p \in 1..Len(self.vowel_pos_weights) : self.vowel_pos_weights[p] > 0)
    THEN "ValueError: All vowel position weights must be positive."
    ELSE IF ~(\A p \in 1..Len(self.consonant_pos_weights) : self.consonant_pos_weights[p] > 0)
    THEN "ValueError: All consonant position weights must be positive."
    ELSE IF self.repeat_letter_penalty <= 0
    THEN "ValueError: Repeat letter penalty must be positive."
    ELSE IF self.mismatch_penalty <= 0
    THEN "ValueError: Mismatch penalty must be positive."
    ELSE IF self.invalid_word_decay_rate_penalty <= 0
    THEN "ValueError: Non-answer decay rate must be positive."
    ELSE IF self.max_guesses <= 0
    THEN "ValueError: Max guesses must be a positive integer."
    ELSE IF self.hardcore_mode \notin BOOLEAN
    THEN "ValueError: Hardcore mode must be a boolean"
    ELSE "none"

HpInit ==
    /\ app = "hyperparameters"
    /\ language = "english"
    /\ max_guesses = gh_max_guesses
    /\ full_word_bank = <<>>
    /\ ascii_converter_key = 0
    /\ possible_word_bank = <<>>
    /\ attempts = <<>>
    /\ hardcore_mode = FALSE
    /\ gh_full_word_bank = <<>>
    /\ gh_possible_word_bank = <<>>
    /\ gh_hardcore_mode = FALSE
    /\ gui = NoGui
    /\ other = NoSession
    /\ solver = NoSolver
    /\ terminal = NoTerminal
    /\ scored = NoScore
    /\ op = Op("init", <<>>)
    /\ err = "none"
    /\ ret = NoReturn
    /\ failed = FALSE
    /\ before = <<>>
    /\ calls = <<>>

\* wordle_buddy.utils.hyperparameters.Hyperparameters(...)
NewHyperparameters(args) ==
    /\ app = "hyperparameters"
    /\ op' = Op("Hyperparameters", <<"wordle_buddy", args>>)
    /\ \E self \in {[vowel_pos_weights |-> args.vowel_pos_weights,
                     consonant_pos_weights |-> args.consonant_pos_weights,
                     repeat_letter_penalty |-> args.repeat_letter_penalty,
                     mismatch_penalty |-> args.mismatch_penalty,
                     invalid_word_decay_rate_penalty |-> 5,
                     max_guesses |-> args.max_guesses,
                     hardcore_mode |-> FALSE]} :
           /\ err' = __post_init__(self)
           /\ ret' = IF err' = "none" THEN [object |-> self] ELSE NoReturn
    /\ UNCHANGED <<app, language, terminal, gui, other, solver, scored, buddy_vars, guessing_vars, before>>

\* archive/hyperparameters.py: Hyperparameters(...) assigns what it is given
NewArchiveHyperparameters(args) ==
    /\ app = "hyperparameters"
    /\ op' = Op("Hyperparameters", <<"archive", args>>)
    /\ err' = "none"
    /\ ret' = [object |-> [vowel_pos_weights |-> args.vowel_pos_weights,
                           consonant_pos_weights |-> args.consonant_pos_weights,
                           repeat_letter_penalty |-> args.repeat_letter_penalty,
                           mismatch_penalty |-> args.mismatch_penalty,
                           answer_weight_base |-> 10,
                           max_guesses |-> args.max_guesses]]
    /\ UNCHANGED <<app, language, terminal, gui, other, solver, scored, buddy_vars, guessing_vars, before>>

HpNext ==
    \/ \E args \in HyperparametersInputs : NewHyperparameters(args)
    \/ \E args \in HyperparametersInputs : NewArchiveHyperparameters(args)

HpSpec == HpInit /\ [][HpNext]_vars

----------------------------------------------------------------------------
(* Properties.  The ViableSet is possible_word_bank (WordleGuesser) or      *)
(* gh_possible_word_bank (GuessHelper); `before` is the ViableSet the last  *)
(* operation started from.                                                  *)

ViableBank ==
    IF app = "wordle_buddy" THEN possible_word_bank ELSE gh_possible_word_bank

Colours == {"green", "yellow", "gray"}

WellFormedFeedback(feedback) == Len(feedback) = 5 /\ Range(feedback) \subseteq Colours

\* a process_guess call the spec calls malformed
Malformed(guess, feedback) ==
    guess \notin Range(Dictionary) \/ ~WellFormedFeedback(feedback)

\* every recorded attempt is a guess of the Dictionary with the oracle's
\* feedback for the (encoded) word s
Truthful(s) ==
    \A k \in 1..Len(attempts) :
        /\ attempts[k][1] \in Range(full_word_bank)
        /\ attempts[k][2] = format_feedback(Oracle(s, attempts[k][1]))

GhTruthful(s) ==
    \A k \in 1..Len(calls) : calls[k][2] = Oracle(s, calls[k][1])

\* the occurrences of letter in guess whose feedback is one of colours
Marks(guess, feedback, letter, colours) ==
    Cardinality({p \in 1..Len(guess) : guess[p] = letter /\ feedback[p] \in colours})

\* C1 (soundness of cull): a cull on a guess of the Dictionary keeps every
\* word of the ViableSet whose oracle feedback for the guess is the feedback
\* given; and a word of the Dictionary whose oracle feedback is the feedback
\* of every cull made so far is still in the ViableSet.
C1_Soundness ==
    /\ (op.name = "process_guess" /\ err = "none"
            /\ op.args[1] \in Range(Dictionary)) =>
           \A s \in Range(before) :
               op.args[2] = format_feedback(
                                Oracle(s, encode_word(op.args[1], ascii_converter_key)))
                   => s \in Range(possible_word_bank)
    /\ (op.name = "cull_possible_word_bank" /\ err = "none") =>
           \A s \in Range(before) :
               op.args[2] = Oracle(s, op.args[1]) => s \in Range(gh_possible_word_bank)
    /\ (app = "wordle_buddy" /\ ~failed) =>
           \A s \in Range(full_word_bank) :
               Truthful(s) => s \in Range(possible_word_bank)
    /\ app = "guessing" =>
           \A s \in Range(gh_full_word_bank) :
               GhTruthful(s) => s \in Range(gh_possible_word_bank)

C1_Witness ==
    /\ app = "wordle_buddy" /\ ~failed
    /\ op.name = "process_guess" /\ err = "none"
    /\ Len(attempts) = 2
    /\ Len(possible_word_bank) < Len(before)
    /\ \E s \in Range(possible_word_bank) : Truthful(s)

\* C2 (monotonic shrink): a cull leaves a ViableSet that is a subset of the
\* one it started from, and never a larger one.
C2_MonotonicShrink ==
    op.name \in {"process_guess", "cull_possible_word_bank"} =>
        /\ Range(ViableBank) \subseteq Range(before)
        /\ Len(ViableBank) <= Len(before)

C2_Witness ==
    /\ op.name = "process_guess" /\ err = "none"
    /\ Len(attempts) = 2
    /\ Len(possible_word_bank) < Len(before)
    /\ Len(before) < Len(full_word_bank)

\* C3 (ViableSet within Dictionary): whatever operations were made, every
\* word of the ViableSet is a word of the Dictionary.
C3_ViableSubsetOfDictionary ==
    /\ Range(possible_word_bank) \subseteq Range(full_word_bank)
    /\ Range(gh_possible_word_bank) \subseteq Range(gh_full_word_bank)

C3_Witness ==
    /\ op.name = "best_guess" /\ ~hardcore_mode
    /\ Len(attempts) = 2
    /\ 0 < Len(possible_word_bank)
    /\ Len(possible_word_bank) < Len(full_word_bank)

\* C4 (exactness of the ViableSet): after culls whose feedback is the
\* oracle's for one secret, every word left would itself have produced that
\* feedback for every guess made.
C4_Exactness ==
    /\ (app = "wordle_buddy" /\ ~failed
            /\ \E s \in Range(full_word_bank) : Truthful(s)) =>
           \A w \in Range(possible_word_bank) : Truthful(w)
    /\ (app = "guessing" /\ \E s \in Range(gh_full_word_bank) : GhTruthful(s)) =>
           \A w \in Range(gh_possible_word_bank) : GhTruthful(w)

\* C5 (repeated-letter count bounds): after WordBankManager culls on a guess
\* of the Dictionary, every remaining word has at least as many of a letter
\* the guess repeats as that letter has green and yellow marks, and no more
\* than that when one of its occurrences is gray; after 'sassy' with the
\* feedback for secret 'glass' no word with three 's' remains and 'glass'
\* does.
C5_RepeatedLetterBounds ==
    (app = "wordle_buddy" /\ op.name = "process_guess" /\ err = "none"
         /\ ~Malformed(op.args[1], op.args[2])) =>
        LET guess == encode_word(op.args[1], ascii_converter_key)
            feedback == op.args[2]
        IN  /\ \A letter \in Range(guess) : \A w \in Range(possible_word_bank) :
                   Count(guess, letter) > 1 =>
                       /\ Count(w, letter) >=
                              Marks(guess, feedback, letter, {"green", "yellow"})
                       /\ Marks(guess, feedback, letter, {"gray"}) > 0 =>
                              Count(w, letter) <=
                                  Marks(guess, feedback, letter, {"green", "yellow"})
            /\ op.args = <<sassy, format_feedback(Oracle(glass, sassy))>> =>
                   /\ \A w \in Range(possible_word_bank) : Count(w, guess[1]) < 3
                   /\ encode_word(glass, ascii_converter_key) \in Range(before) =>
                          encode_word(glass, ascii_converter_key)
                              \in Range(possible_word_bank)

C5_Witness ==
    /\ app = "wordle_buddy" /\ op.name = "process_guess" /\ err = "none"
    /\ op.args = <<sassy, format_feedback(Oracle(glass, sassy))>>
    /\ encode_word(sassy, ascii_converter_key) \in Range(before)
    /\ encode_word(glass, ascii_converter_key) \in Range(possible_word_bank)
    /\ encode_word(sassy, ascii_converter_key) \notin Range(possible_word_bank)

\* C6 (idempotent reset): after reset_game the ViableSet is the whole
\* Dictionary as loaded, whatever the culls before it had left, and a reset
\* of a reset session changes nothing.
C6_IdempotentReset ==
    (app = "wordle_buddy" /\ op.name = "reset_game") =>
        /\ possible_word_bank = LoadWordBank(language).normalized_word_bank
        /\ possible_word_bank = full_word_bank
        /\ attempts = <<>>
        /\ before = full_word_bank => possible_word_bank = before

C6_Witness ==
    /\ op.name = "reset_game"
    /\ before = <<>>
    /\ possible_word_bank = full_word_bank
    /\ Len(full_word_bank) > 0

\* C7 (input validation of cull): a cull whose guess is no word of the
\* Dictionary, whose feedback has not the guess's length or has a symbol
\* that is no feedback symbol, raises an error and leaves the ViableSet as
\* it was.
C7_InputValidation ==
    /\ (op.name = "process_guess" /\ Malformed(op.args[1], op.args[2])) =>
           err # "none" /\ possible_word_bank = before
    /\ (op.name = "cull_possible_word_bank"
            /\ \/ op.args[1] \notin Range(gh_full_word_bank)
               \/ Len(op.args[2]) # 5
               \/ ~(Range(op.args[2]) \subseteq {"g", "y", "w"})) =>
           err # "none" /\ gh_possible_word_bank = before

\* C8 (cull is all-or-nothing): a cull that raises leaves the ViableSet
\* exactly as it was before the call.
C8_AllOrNothing ==
    (op.name \in {"process_guess", "cull_possible_word_bank"} /\ err # "none") =>
        ViableBank = before

\* C9 (empty terminal state): a well-formed cull that leaves no viable word
\* raises nothing, a further one on the empty ViableSet raises nothing and
\* leaves it empty, and best_guess on it returns the sentinel
\* 'No Viable Guesses'.
C9_EmptyTerminalState ==
    /\ (op.name = "process_guess" /\ ~Malformed(op.args[1], op.args[2])
            /\ possible_word_bank = <<>>) => err = "none"
    /\ (op.name = "process_guess" /\ ~Malformed(op.args[1], op.args[2])
            /\ before = <<>>) => err = "none" /\ possible_word_bank = <<>>
    /\ (op.name = "best_guess" /\ possible_word_bank = <<>>) =>
           err = "none" /\ ret.sentinel /\ ret.words = <<>>

C9_Witness ==
    /\ op.name = "best_guess"
    /\ possible_word_bank = <<>>
    /\ Len(attempts) > 0
    /\ ret.sentinel

\* the scoring universe of best_guess and of find_optimal_guesses
Universe == current_word_bank(hardcore_mode, full_word_bank, possible_word_bank)

GhUniverse == IF gh_hardcore_mode THEN gh_possible_word_bank ELSE gh_full_word_bank

\* C10 (selector clamping): asked for more best guesses than the scoring
\* universe has words, the selector (best_guess on a non-empty ViableSet,
\* find_optimal_guesses) raises nothing and returns exactly as many results
\* as the universe has words.
C10_ReturnsWholeUniverse ==
    /\ (op.name = "best_guess" /\ possible_word_bank # <<>>
            /\ op.args[1] > Len(Universe)) =>
           err = "none" /\ ~ret.sentinel /\ Len(ret.words) = Len(Universe)
    /\ (op.name = "find_optimal_guesses" /\ op.args[2] > Len(GhUniverse)) =>
           err = "none" /\ Len(ret.best_words) = Len(GhUniverse)

\* the score find_optimal_guesses gave a word of its universe
GhScore(word) == EntropyScore(word, gh_possible_word_bank, op.args[1])

\* the words of a returned list of (word, score) pairs
WordsOf(pairs) == {pairs[k][1] : k \in 1..Len(pairs)}

\* C11 (best list of find_optimal_guesses): the best list holds exactly the
\* min(num_best, |universe|) highest-scoring words of the universe, each
\* with its score, in descending score order.
C11_BestList ==
    (op.name = "find_optimal_guesses" /\ err = "none") =>
        LET best_words == ret.best_words
        IN  /\ Len(best_words) = Min(op.args[2], Len(GhUniverse))
            /\ Cardinality(WordsOf(best_words)) = Len(best_words)
            /\ \A k \in 1..Len(best_words) :
                   /\ best_words[k][1] \in Range(GhUniverse)
                   /\ best_words[k][2] = GhScore(best_words[k][1])
                   /\ \A w \in Range(GhUniverse) \ WordsOf(best_words) :
                          GhScore(w) <= best_words[k][2]
            /\ \A k \in 1..(Len(best_words) - 1) :
                   best_words[k][2] >= best_words[k + 1][2]

\* C12 (worst list of find_optimal_guesses): the worst list holds exactly the
\* min(num_worst, |universe|) lowest-scoring words of the universe, each
\* with its score, in ascending score order.
C12_WorstList ==
    (op.name = "find_optimal_guesses" /\ err = "none") =>
        LET worst_words == ret.worst_words
        IN  /\ Len(worst_words) = Min(op.args[3], Len(GhUniverse))
            /\ Cardinality(WordsOf(worst_words)) = Len(worst_words)
            /\ \A k \in 1..Len(worst_words) :
                   /\ worst_words[k][1] \in Range(GhUniverse)
                   /\ worst_words[k][2] = GhScore(worst_words[k][1])
                   /\ \A w \in Range(GhUniverse) \ WordsOf(worst_words) :
                          GhScore(w) >= worst_words[k][2]
            /\ \A k \in 1..(Len(worst_words) - 1) :
                   worst_words[k][2] <= worst_words[k + 1][2]

\* C13 (feedback oracle, two-pass rule): in the result of submit_guess a
\* position is 'g' exactly when guess and secret agree there; for every
\* letter the 'g' and 'y' marks number min(count in guess, count in secret);
\* and among the occurrences that are not 'g' the 'y' marks are the leftmost.
C13_TwoPassOracle ==
    (op.name = "submit_guess" /\ ret # NoReturn) =>
        LET guess == op.args[1]
            secret_word == gui.secret_word
            result == ret.result
        IN  /\ Len(result) = Len(guess)
            /\ \A p \in 1..Len(guess) :
                   /\ result[p] \in {"g", "y", "w"}
                   /\ result[p] = "g" <=> guess[p] = secret_word[p]
            /\ \A c \in Range(guess) :
                   Cardinality({p \in 1..Len(guess) :
                                    guess[p] = c /\ result[p] \in {"g", "y"}})
                       = Min(Count(guess, c), Count(secret_word, c))
            /\ \A p, q \in 1..Len(guess) :
                   (p < q /\ guess[p] = guess[q] /\ result[p] # "g" /\ result[q] = "y")
                       => result[p] = "y"

C13_Witness ==
    /\ op.name = "submit_guess" /\ ret # NoReturn
    /\ \E p, q, r \in 1..5 :
           /\ p < q
           /\ op.args[1][p] = op.args[1][q] /\ op.args[1][q] = op.args[1][r]
           /\ ret.result[p] = "y" /\ ret.result[q] = "w" /\ ret.result[r] = "g"

\* C14 (validation at construction): every Hyperparameters object that a
\* constructor returned has all vowel and consonant position weights, the
\* repeated-letter penalty, the mismatch penalty and max_guesses above zero.
C14_ValidatedAtConstruction ==
    (op.name = "Hyperparameters" /\ err = "none") =>
        LET self == ret.object
        IN  /\ \A p \in 1..Len(self.vowel_pos_weights) : self.vowel_pos_weights[p] > 0
            /\ \A p \in 1..Len(self.consonant_pos_weights) : self.consonant_pos_weights[p] > 0
            /\ self.repeat_letter_penalty > 0
            /\ self.mismatch_penalty > 0
            /\ self.max_guesses > 0

\* C15 (Dictionary never mutated): after any sequence of cull, reset,
\* toggle_mode and best_guess (which scores the word bank) the full word
\* bank of the session is the one that was loaded.
C15_DictionaryNeverMutated ==
    app = "wordle_buddy" =>
        /\ full_word_bank = LoadWordBank(language).normalized_word_bank
        /\ [k \in 1..Len(full_word_bank) |-> decode_word(full_word_bank[k], ascii_converter_key)]
               = WordBankFile(language)

\* a best_guess that scored the full word bank in the endgame, with words
\* of the bank no longer viable
C15_Witness ==
    /\ app = "wordle_buddy"
    /\ op.name = "best_guess"
    /\ hardcore_mode = FALSE
    /\ Len(possible_word_bank) \in 1..2
    /\ Len(attempts) > 0
    /\ ~ret.sentinel

UnweightedScore(word) ==
    SumEntropies([pos \in 1..Len(word) |->
        Plus(Scale(120, green_entropy(possible_word_bank, word[pos], pos)),
             Plus(Scale(60 + (60 \div Count(word, word[pos])),
                        yellow_entropy(possible_word_bank, word[pos], pos)),
                  Scale(120 \div Count(word, word[pos]),
                        white_entropy(possible_word_bank, word[pos]))))])

\* C18 (endgame weighting): when at most 2 words are viable or the attempt
\* number equals max_guesses, score_word_bank returns zero for every word
\* of the universe that is not viable and the unweighted score for every
\* viable word; otherwise it returns the unweighted score for every word.
C18_EndgameWeighting ==
    op.name = "score_word_bank" =>
        LET universe == current_word_bank(hardcore_mode, full_word_bank, possible_word_bank)
            endgame == Len(possible_word_bank) <= 2 \/ op.args[1] = max_guesses
        IN  \A k \in 1..Len(universe) :
                IF endgame /\ universe[k] \notin Range(possible_word_bank)
                THEN ret.scores[k] = Zero
                ELSE ret.scores[k] = UnweightedScore(universe[k])

RECURSIVE SumOver(_, _)
SumOver(f, S) ==
    IF S = {} THEN 0
    ELSE LET x == CHOOSE y \in S : TRUE IN f[x] + SumOver(f, S \ {x})

C17_SessionsIndependent ==
    [][/\ (other # NoSession /\ op'.name \in {"process_guess", "process_guesses", "reset_game", "best_guess"}) =>
              /\ other' = other
              /\ max_guesses' = max_guesses
       /\ op'.name \in {"other.process_guess", "other.reset_game"} =>
              /\ possible_word_bank' = possible_word_bank
              /\ attempts' = attempts
              /\ max_guesses' = max_guesses]_vars

\* the first session has made a guess that left it another possible word
\* bank and another history than the second session, which has guessed too
C17_Witness ==
    /\ other # NoSession
    /\ op.name \in {"process_guess", "process_guesses"}
    /\ err = "none"
    /\ Len(other.attempts) > 0
    /\ attempts # other.attempts
    /\ possible_word_bank # other.possible_word_bank
    /\ possible_word_bank # before

\* C20 (scoring is never stale): a score_word_bank call of wordle_solver's
\* scorer, made after any culls and resets, returns the scores computed
\* from the bank of its mode as it is at the call: the full word bank in
\* hardcore mode, else the possible word bank.
C20_ScoringNeverStale ==
    (app = "wordle_solver" /\ op.name = "score_word_bank") =>
        ret.scores = ws_score_word_bank(IF hardcore_mode THEN full_word_bank ELSE possible_word_bank,
                                        possible_word_bank, op.args[1], max_guesses)

\* C21 (toggle_mode as documented): a score_word_bank call of wordle_buddy's
\* scorer scores the rows of the full word bank when hardcore_mode is True
\* and the rows of the possible word bank when it is False.
C21_ToggleModeUniverse ==
    (app = "wordle_buddy" /\ op.name = "score_word_bank") =>
        ret.scores = score_word_bank(IF hardcore_mode = TRUE THEN full_word_bank ELSE possible_word_bank,
                                     possible_word_bank, op.args[1], max_guesses)

\* C22 (degenerate entropy): in a score_word_bank call of wordle_buddy's
\* scorer, for every scored word and position whose letter has frequency 0
\* or the size of the possible word bank at that position, the green
\* entropy term that enters the score is exactly 0.
C22_DegenerateEntropyZero ==
    (app = "wordle_buddy" /\ op.name = "score_word_bank") =>
        \A word \in Range(current_word_bank(hardcore_mode, full_word_bank, possible_word_bank)) :
            \A pos \in 1..Len(word) :
                char_freq_table(possible_word_bank, word[pos], pos) \in {0, Len(possible_word_bank)} =>
                    green_entropy(possible_word_bank, word[pos], pos) = Zero

\* the entries process_guess appends for the pairs of process_guesses
ReplayedAttempts(guesses, feedbacks) ==
    [k \in 1..Len(guesses) |-> <<encode_word(guesses[k], ascii_converter_key), feedbacks[k]>>]

\* C23 (attempt history): a completed process_guess appends exactly its
\* (guess, feedback) entry and one that raises appends nothing; reset_game
\* leaves the list empty; process_guesses leaves the entries of its
\* completed process_guess calls, in order; best_guess and toggle_mode leave
\* the list alone, and best_guess scores with attempt number
\* len(attempts) + 1.
C23_AttemptHistory ==
    [][app = "wordle_buddy" =>
          /\ op'.name = "process_guess" =>
                 attempts' = IF err' = "none"
                             THEN Append(attempts, <<encode_word(op'.args[1], ascii_converter_key), op'.args[2]>>)
                             ELSE attempts
          /\ op'.name = "reset_game" => attempts' = <<>>
          /\ (op'.name = "process_guesses" /\ err' = "ValueError") => attempts' = attempts
          /\ (op'.name = "process_guesses" /\ err' # "ValueError") =>
                 /\ Len(attempts') <= Len(op'.args[1])
                 /\ attempts' = SubSeq(ReplayedAttempts(op'.args[1], op'.args[2]), 1, Len(attempts'))
                 /\ err' = "none" => Len(attempts') = Len(op'.args[1])
          /\ op'.name \in {"best_guess", "toggle_mode"} => attempts' = attempts
          /\ op'.name = "best_guess" =>
                 ret' \in best_guess(full_word_bank, possible_word_bank, ascii_converter_key,
                                     hardcore_mode, Len(attempts), max_guesses, op'.args[1])]_vars

\* a second process_guess has completed after an earlier call raised
C23_Witness ==
    /\ app = "wordle_buddy"
    /\ op.name = "process_guess"
    /\ err = "none"
    /\ failed
    /\ Len(attempts) = 1
    /\ attempts[1] = <<encode_word(op.args[1], ascii_converter_key), op.args[2]>>

\* process_guess called on the pairs from the k-th on, one after the other,
\* until one raises
RECURSIVE OneByOne(_, _, _, _, _)
OneByOne(guesses, feedbacks, k, bank, atts) ==
    IF k > Len(guesses) THEN [bank |-> bank, attempts |-> atts]
    ELSE LET r == process_guess(bank, atts, ascii_converter_key, guesses[k], feedbacks[k])
         IN  IF r.err # "none" THEN [bank |-> r.bank, attempts |-> r.attempts]
             ELSE OneByOne(guesses, feedbacks, k + 1, r.bank, r.attempts)

\* C24 (process_guesses resets, then replays): after a process_guesses call
\* with as many guesses as feedbacks, the possible word bank and the
\* attempts are those of process_guess called on each pair in order from a
\* freshly reset game, whatever was processed before.
C24_ResetThenReplay ==
    (app = "wordle_buddy" /\ op.name = "process_guesses" /\ err # "ValueError") =>
        \E fresh \in {OneByOne(op.args[1], op.args[2], 1, LoadWordBank(language).normalized_word_bank, <<>>)} :
            /\ possible_word_bank = fresh.bank
            /\ attempts = fresh.attempts

\* two pairs have been replayed over a game that had already been culled
C24_Witness ==
    /\ app = "wordle_buddy"
    /\ op.name = "process_guesses"
    /\ err = "none"
    /\ Len(op.args[1]) = 2
    /\ Len(attempts) = 2
    /\ before # full_word_bank
    /\ possible_word_bank # before

\* C25 (length mismatch): process_guesses called with a number of guesses
\* different from the number of feedbacks raises ValueError and leaves the
\* possible word bank and the attempts as they were before the call.
C25_MismatchLeavesGame ==
    [][(app = "wordle_buddy" /\ op'.name = "process_guesses"
            /\ Len(op'.args[1]) # Len(op'.args[2])) =>
           /\ err' = "ValueError"
           /\ possible_word_bank' = possible_word_bank
           /\ attempts' = attempts]_vars

\* the mismatched call was made on a game with a guess processed and words
\* culled
C25_Witness ==
    /\ app = "wordle_buddy"
    /\ op.name = "process_guesses"
    /\ Len(op.args[1]) # Len(op.args[2])
    /\ err = "ValueError"
    /\ Len(attempts) > 0
    /\ possible_word_bank # full_word_bank

\* C26 (cull order does not matter): two culls with valid (guess, feedback)
\* pairs, made one after the other on any possible word bank, leave the
\* bank that the same two culls leave when made in the other order; for
\* WordBankManager.cull and for GuessHelper.cull_possible_word_bank.
C26_CullOrderFree ==
    (op.name = "cull;cull" /\ err = "none") =>
        /\ app = "wordle_buddy" =>
               possible_word_bank =
                   cull(cull(before, encode_word(op.args[3], ascii_converter_key), op.args[4]).bank,
                        encode_word(op.args[1], ascii_converter_key), op.args[2]).bank
        /\ app = "guessing" =>
               gh_possible_word_bank =
                   cull_possible_word_bank(gh_full_word_bank,
                       cull_possible_word_bank(gh_full_word_bank, before, op.args[3], op.args[4]).bank,
                       op.args[1], op.args[2]).bank

\* two different culls, each of which removed words, left a non-empty bank
C26_Witness ==
    /\ app = "wordle_buddy"
    /\ op.name = "cull;cull"
    /\ err = "none"
    /\ <<op.args[1], op.args[2]>> # <<op.args[3], op.args[4]>>
    /\ Len(before) > Len(ret.first)
    /\ Len(ret.first) > Len(possible_word_bank)
    /\ Len(possible_word_bank) > 0

\* C27 (cull is idempotent): WordBankManager.cull made twice in a row with
\* the same valid (guess, feedback) pair leaves the possible word bank as
\* it was after the first of the two.
C27_CullIdempotent ==
    (app = "wordle_buddy" /\ op.name = "cull;cull" /\ err = "none"
         /\ op.args[1] = op.args[3] /\ op.args[2] = op.args[4]) =>
        possible_word_bank = ret.first

\* the same cull was made twice; the first one removed words and left some
C27_Witness ==
    /\ app = "wordle_buddy"
    /\ op.name = "cull;cull"
    /\ err = "none"
    /\ op.args[1] = op.args[3]
    /\ op.args[2] = op.args[4]
    /\ Len(before) > Len(ret.first)
    /\ Len(ret.first) > 1

\* the score best_guess gave to a word it returned
ReturnedScore(word) ==
    score_word_bank(<<encode_word(word, ascii_converter_key)>>, possible_word_bank,
                    Len(attempts) + 1, max_guesses)[1]

C30_TerminalPromptLoop ==
    app = "terminal" =>
        /\ \A k \in 1..Len(terminal.words) :
               terminal.words[k] # NoneValue =>
                   /\ Len(terminal.words[k]) = 5
                   /\ terminal.words[k] \in Range(WordBankFile(language))
        /\ (op.name = "input word" /\ op.args[1] = ExitWord) => err = "none"

====
